---- MODULE Spec2Model ----
(***************************************************************************)
(* Kitty_containers: the parent-side container handle (Kitten) with its    *)
(* host network resources, and the multi-container Manager with its       *)
(* restart supervisors.                                                    *)
(*                                                                         *)
(*   SpecK   one handle driven by concurrent tasks calling Start, Wait,    *)
(*           Stop and State, step by step at the handle mutex and at the   *)
(*           blocking points of the code.                                  *)
(*   SpecOrder  Manager.Start and Manager.Stop over every small dependency *)
(*           graph (cycles, self-dependencies, undeclared names).          *)
(*   SpecSup    a manager with restart supervisors, exiting children and   *)
(*           Start/Stop calls.                                             *)
(*   SpecLive   the supervised deployment under fair scheduling, for the   *)
(*           restart guarantee of policy always.                           *)
(***************************************************************************)
EXTENDS Integers, Sequences, FiniteSets, Bags, TLC

\* ------------------------------------------------------------------ bounds
NTasks == 2          \* concurrent callers of one handle
MaxPorts == 2        \* port mappings of the handle's network config

MaxDeps == 1         \* length of a depends_on list (SpecOrder)
MaxRestarts == 1     \* handles a manager creates beyond one per container
MaxSup == 2          \* supervisor goroutines alive at a time
MaxCalls == 2        \* Manager API calls of the main task
MaxWaits == 1        \* calls of Manager.Wait
MaxHostRules == 3    \* iptables rules on the host before the first call
MaxMounts == 2       \* entries of config.Mounts
MaxIDLen == 3        \* characters of a container ID, where two IDs are compared
MaxPlainLen == 11    \* characters of a container ID, where one ID is looked at

Tasks == 1..NTasks
NoTask == 0

\* ---------------------------------------------------------- value domains
StateCreated == "created"
StateRunning == "running"
StateStopped == "stopped"
StateError == "error"

PortA == <<8080, 80>>                           \* (HostPort, ContainerPort)
PortB == <<8081, 80>>
\* port-mapping lists: one mapping repeated, or a first mapping and a second
PortSeqs == UNION {{[i \in 1..n |-> PortA], [i \in 1..n |-> IF i = 1 THEN PortA ELSE PortB]}
                   : n \in 0..MaxPorts}
LastOctets == {2, 254}                          \* allocateIP: rand.Intn(253)+2
UserExitCodes == {0, 2}                         \* exit codes of the user command
SignalExit == -1                                \* ExitCode() of a signalled child
NoIP == 0
StaticIPs == {10}                               \* last octet of a deployment's ip field

VARIABLES
    \* --- configuration of the handle (inputs)
    cfgNet,        \* config.Namespaces.Net
    cfgPorts,      \* config.Network.PortMappings
    cfgIP,         \* config.Network.ContainerIP as supplied (NoIP: none)
    termBehaviour, \* what the child does on SIGTERM: "exits" | "ignores"
    rootfs,        \* the directory config.RootFS exists when Start looks for it
    \* --- Kitten fields
    kstate, kcmd, kpid, kexitCode, kvethHost, kcontainerIP, kstopTime, kmutex,
    \* --- the child process and os/exec bookkeeping
    proc,          \* "none" | "running" | "exited"
    procCode,      \* exit status of the child
    procReaped,    \* the exit status has been collected (Cmd.ProcessState set)
    cmdWaitCalled, \* Cmd.Wait has been entered at least once
    sigTerm, sigKill, launches,
    vethMoved,     \* the peer veth lives in the child's netns
    reaper,        \* the reaping goroutine of Stop: "none"|"spawned"|"blocked"|"done"
    stopReturned,  \* ghost: how the child was when Stop returned nil
    \* --- host
    links,         \* names of the links on the host
    iptables,      \* the nat table: sequence of rules
    \* --- tasks
    pc, werr,
    \* --- observation
    stateSeq,      \* the values the state field has taken, in order
    observed,      \* what State() callers have seen, in order
    \* --- deployment (ManagerConfig)
    mDeclared,     \* names of config.Containers
    mDeps,         \* name -> DependsOn
    mRestart,      \* name -> Restart
    mNets,         \* config.Networks: name -> Driver
    \* --- Manager fields
    mcontainers,   \* name -> handle (0: no entry)
    mnetworks,     \* name -> [Mode, BridgeName]
    mlock,         \* m.mu is write-locked by the main task
    \* --- the main task inside Manager.Start / Manager.Stop
    mpc, started, visited, progress, stopOrder, stopIdx, mret, calls,
    \* --- handles created by the manager, supervisors, host bridges
    handles, sups, bridges,
    \* --- logs of the current Start / Stop call
    startLog, stopLog,
    \* --- Manager.Wait
    wpc,           \* the caller of Manager.Wait: "idle" or "collect"
    waiters,       \* the goroutines of the call, one per handle of the snapshot
    results,       \* the errors sent on the results channel, in order
    wret,          \* <<>> while the call has not returned, else <<firstErr>>
    waits,         \* calls of Manager.Wait begun
    \* --- network finalization of Start and the child's own network step
    ppc,           \* the next finalization step of Start
    cpc,           \* the child: "setup", "addr", "route", "exec" or "failed"
    eth0,          \* the peer veth: "host", "moved" into the namespace, "eth0"
    eth0Up,        \* eth0 is up
    nsAddr,        \* eth0 carries containerIP/24
    nsRoute,       \* the namespace has a default route via the gateway
    tries,         \* attempts of the child's route loop so far
    \* --- RunChild on its own, every call it makes failing or not
    childCfg,      \* the configuration the child deserialized
    childRun,      \* position, err variable, steps made, exit code of the child
    \* --- the helper functions, called on their own
    fcall,         \* the last call: the function, its arguments, its result
    \* --- observation of Wait
    waitReturned   \* when recording is on: the exit codes Wait has returned so far

kvars == <<cfgNet, cfgPorts, cfgIP, termBehaviour, rootfs, kstate, kcmd, kpid, kexitCode,
           kvethHost, kcontainerIP, kstopTime, kmutex, proc, procCode,
           procReaped, cmdWaitCalled, sigTerm, sigKill,
           launches, vethMoved, reaper, stopReturned, links, iptables, pc,
           werr, stateSeq, observed>>

cfg == <<cfgNet, cfgPorts, cfgIP, termBehaviour, rootfs>>
kid == <<kcmd, kpid, kvethHost, kcontainerIP, launches>>
kst == <<kstate, stateSeq, kstopTime>>
child == <<proc, procCode>>
sigs == <<sigTerm, sigKill>>
host == <<links, iptables>>

mvars == <<mDeclared, mDeps, mRestart, mNets, mcontainers, mnetworks, mlock, mpc,
           started, visited, progress, stopOrder, stopIdx, mret, calls, handles,
           sups, bridges, startLog, stopLog>>

mcfg == <<mDeclared, mDeps, mRestart, mNets>>
mscan == <<started, visited, progress>>
mstop == <<stopOrder, stopIdx>>

wvars == <<wpc, waiters, results, wret, waits>>

crun == <<childCfg, childRun>>

seen == <<fcall, waitReturned>>
nvars == <<ppc, cpc, eth0, eth0Up, nsAddr, nsRoute, tries, crun, seen>>

vars == <<kvars, mvars, wvars, nvars>>

Range(f) == {f[i] : i \in DOMAIN f}

\* ------------------------------------------------------------ host network
VethName == "vethk"

DNATRule(pm, ip) == <<"DNAT", "tcp", pm[1], ip, pm[2]>>
MasqRule(pm, ip) == <<"MASQ", "tcp", ip, pm[2]>>

\* iptables -D: delete the first rule equal to r, if any
RECURSIVE DeleteRule(_, _)
DeleteRule(tbl, r) ==
    IF tbl = <<>> THEN <<>>
    ELSE IF Head(tbl) = r THEN Tail(tbl)
    ELSE <<Head(tbl)>> \o DeleteRule(Tail(tbl), r)

addPortForward(tbl, pm, ip) == Append(Append(tbl, DNATRule(pm, ip)), MasqRule(pm, ip))

removePortForward_DNATOnly(tbl, pm, ip) == DeleteRule(tbl, DNATRule(pm, ip))

removePortForward(tbl, pm, ip) == DeleteRule(DeleteRule(tbl, DNATRule(pm, ip)), MasqRule(pm, ip))

RECURSIVE addAll(_, _, _)
addAll(tbl, pms, ip) ==
    IF pms = <<>> THEN tbl ELSE addAll(addPortForward(tbl, Head(pms), ip), Tail(pms), ip)

RECURSIVE removeAll(_, _, _)
removeAll(tbl, pms, ip) ==
    IF pms = <<>> THEN tbl ELSE removeAll(removePortForward(tbl, Head(pms), ip), Tail(pms), ip)

deleteVethInterface(ls, name) == ls \ {name}

\* ------------------------------------------------------------ host bridge
BridgeName == "kitten0"

MasqSubnetRule == <<"MASQ", "all", "10.0.0.0/24", 0>>
FwdInRule(br) == <<"FWD", "in", br>>
FwdOutRule(br) == <<"FWD", "out", br>>

\* iptables -A three times: the rules are appended whatever the table holds
setupBridgeNAT(tbl, br) ==
    Append(Append(Append(tbl, MasqSubnetRule), FwdInRule(br)), FwdOutRule(br))

\* iptables -D three times, errors ignored
cleanupBridgeNAT(tbl, br) ==
    DeleteRule(DeleteRule(DeleteRule(tbl, MasqSubnetRule), FwdInRule(br)), FwdOutRule(br))

LinkExists_Never(ls, name) == FALSE

\* ip link show <name> succeeds
LinkExists(ls, name) == name \in ls

\* CreateBridge on a host h = [links, rules]: the host afterwards and whether
\* an error is returned.  An existing link of that name ends the call at once;
\* ip link add fails when the name is taken.
CreateBridge(h, name) ==
    IF LinkExists(h.links, name)
    THEN [links |-> h.links, rules |-> h.rules, err |-> FALSE]
    ELSE IF name \in h.links
    THEN [links |-> h.links, rules |-> h.rules, err |-> TRUE]
    ELSE [links |-> h.links \cup {name}, rules |-> setupBridgeNAT(h.rules, name),
          err |-> FALSE]

\* DeleteBridge: the link is deleted if it is there, then the NAT rules go
DeleteBridge(h, name) ==
    [links |-> h.links \ {name}, rules |-> cleanupBridgeNAT(h.rules, name), err |-> FALSE]

\* the host of the running system as a record
Host == [links |-> links, rules |-> iptables]

\* CreateBridge / DeleteBridge are run on the host
DoCreateBridge ==
    /\ LET h == CreateBridge(Host, BridgeName) IN
         /\ links' = h.links
         /\ iptables' = h.rules
    /\ UNCHANGED <<mvars, wvars, nvars, cfg, kid, kst, kexitCode, kmutex, child, procReaped,
                   cmdWaitCalled, sigs, vethMoved, reaper, pc, werr, stopReturned, observed>>

DoDeleteBridge ==
    /\ LET h == DeleteBridge(Host, BridgeName) IN
         /\ links' = h.links
         /\ iptables' = h.rules
    /\ UNCHANGED <<mvars, wvars, nvars, cfg, kid, kst, kexitCode, kmutex, child, procReaped,
                   cmdWaitCalled, sigs, vethMoved, reaper, pc, werr, stopReturned, observed>>

\* the rules of a table with their multiplicities
RuleBag(tbl) == [r \in Range(tbl) |-> Cardinality({i \in 1..Len(tbl) : tbl[i] = r})]

\* deleteVethInterface drops the error of netlink.LinkByName: when there is no
\* link of that name, netlink.LinkDel is handed a nil Link
NilLink(ls, name) == name \notin ls

\* Kitten.cleanup as a function of the host state
cleanupTable(tbl) == IF cfgNet THEN removeAll(tbl, cfgPorts, kcontainerIP) ELSE tbl
cleanupLinks(ls) == IF cfgNet THEN deleteVethInterface(ls, kvethHost) ELSE ls

HasRuleFor(ip) == \E i \in 1..Len(iptables) :
    \/ iptables[i][1] = "DNAT" /\ iptables[i][4] = ip
    \/ iptables[i][1] = "MASQ" /\ iptables[i][3] = ip

\* ------------------------------------------------------------------- Init
\* NewKitten returned nil and an error: there is no handle to call
NoKitten == "nil"

\* the configuration is accepted when os.Stat finds the rootfs directory (the
\* command and the network configuration of the inputs are well formed)
ValidateConfig(exists) == exists

\* NewKitten: the configuration is validated when the handle is made; rootfs
\* is what os.Stat will find later, when Start looks at the path again
NewKittenK ==
    /\ termBehaviour \in {"exits", "ignores"}
    /\ \E atNew \in BOOLEAN :
          IF ValidateConfig(atNew)
          THEN /\ kstate = StateCreated
               /\ stateSeq = <<StateCreated>>
               /\ pc = [t \in Tasks |-> "idle"]
               /\ rootfs \in BOOLEAN
          ELSE /\ kstate = NoKitten
               /\ stateSeq = <<>>
               /\ pc = [t \in Tasks |-> "nohandle"]
               /\ rootfs = FALSE
    /\ kcmd = FALSE
    /\ kpid = 0
    /\ kexitCode = 0
    /\ kvethHost = ""
    /\ kcontainerIP = NoIP
    /\ kstopTime = FALSE
    /\ kmutex = NoTask
    /\ proc = "none"
    /\ procCode = 0
    /\ procReaped = FALSE
    /\ cmdWaitCalled = FALSE
    /\ sigTerm = FALSE
    /\ sigKill = FALSE
    /\ launches = 0
    /\ vethMoved = FALSE
    /\ reaper = "none"
    /\ stopReturned = "no"
    /\ links = {}
    /\ iptables = <<>>
    /\ werr = [t \in Tasks |-> FALSE]
    /\ observed = <<>>

\* no deployment
\* no call of Manager.Wait yet
IdleW ==
    /\ wpc = "idle" /\ waiters = <<>> /\ results = <<>> /\ wret = <<>> /\ waits = 0

\* no child, no finalization
IdleNet ==
    /\ ppc = "none" /\ cpc = "none" /\ eth0 = "host" /\ eth0Up = FALSE
    /\ nsAddr = FALSE /\ nsRoute = FALSE /\ tries = 0

\* the configurations RunChild can be handed: which namespaces, how many
\* mounts, whether WorkingDir is set
ChildCfgs == [uts : BOOLEAN, mount : BOOLEAN, net : BOOLEAN,
              mounts : 0..MaxMounts, workdir : BOOLEAN]

\* the child at the first statement of RunChild
ChildAtEntry ==
    [pc |-> "unmarshal", err |-> FALSE, trace |-> <<>>, i |-> 0, tries |-> 0,
     routed |-> FALSE, mountFailed |-> FALSE, ret |-> "", code |-> -1]

NoChildRun ==
    /\ childCfg = [uts |-> FALSE, mount |-> FALSE, net |-> FALSE, mounts |-> 0, workdir |-> FALSE]
    /\ childRun = [ChildAtEntry EXCEPT !.pc = "none"]

NoCall == [fn |-> "none"]

\* the record of the exit codes returned by Wait, switched off or on
WaitsUnrecorded == [on |-> FALSE, codes |-> {}]
WaitsRecorded == [on |-> TRUE, codes |-> {}]

IdleN == IdleNet /\ NoChildRun /\ fcall = NoCall /\ waitReturned = WaitsUnrecorded

IdleM ==
    /\ IdleW
    /\ mDeclared = {}
    /\ mDeps = <<>>
    /\ mRestart = <<>>
    /\ mNets = <<>>
    /\ mcontainers = <<>>
    /\ mnetworks = <<>>
    /\ mlock = FALSE
    /\ mpc = "idle"
    /\ started = {}
    /\ visited = {}
    /\ progress = FALSE
    /\ stopOrder = <<>>
    /\ stopIdx = 0
    /\ mret = "none"
    /\ calls = 0
    /\ handles = <<>>
    /\ sups = EmptyBag
    /\ bridges = {}
    /\ startLog = <<>>
    /\ stopLog = <<>>

\* configurations without a static address
InitK ==
    /\ cfgNet \in BOOLEAN
    /\ cfgPorts \in (IF cfgNet THEN PortSeqs ELSE {<<>>})
    /\ cfgIP = NoIP
    /\ NewKittenK

Init == InitK /\ IdleM /\ IdleN

\* Net configurations as startContainer builds them, with or without a
\* static address
InitStatic ==
    /\ cfgNet = TRUE
    /\ cfgPorts \in PortSeqs
    /\ cfgIP \in {NoIP} \cup StaticIPs
    /\ NewKittenK
    /\ IdleM /\ IdleN

\* the state field is written: record the value when it changes
SetState(new) ==
    /\ kstate' = new
    /\ stateSeq' = IF new = kstate THEN stateSeq ELSE Append(stateSeq, new)

\* the call returns to its caller
Return(t) ==
    /\ pc' = [pc EXCEPT ![t] = "idle"]
    /\ werr' = [werr EXCEPT ![t] = FALSE]

\* ----------------------------------------------------------- Kitten.Start
StartAllowed_AnyState(st) == TRUE

\* Start goes on only from Created
StartAllowed(st) == st = StateCreated

\* Start refused: the handle is not Created
StartRefused(t) ==
    /\ pc[t] = "idle" /\ kmutex = NoTask
    /\ ~StartAllowed(kstate)
    /\ Return(t)
    /\ UNCHANGED <<mvars, wvars, nvars, cfg, kid, kst, kexitCode, kmutex, child, procReaped, cmdWaitCalled,
                   sigs, vethMoved, reaper, host, stopReturned, observed>>

\* createVethPair fails: Start returns before anything is recorded
StartVethFails(t) ==
    /\ pc[t] = "idle" /\ kmutex = NoTask
    /\ StartAllowed(kstate) /\ cfgNet
    /\ Return(t)
    /\ UNCHANGED <<mvars, wvars, nvars, cfg, kid, kst, kexitCode, kmutex, child, procReaped, cmdWaitCalled,
                   sigs, vethMoved, reaper, host, stopReturned, observed>>

\* the veth pair is created and an address allocated (Net handles only)
\* the address Start records: the result of allocateIP, whatever
\* config.Network.ContainerIP held
StartAddress(static, drawn) == drawn

StartVeth ==
    IF cfgNet
    THEN /\ VethName \notin links
         /\ links' = links \cup {VethName}
         /\ kvethHost' = VethName
         /\ \E o \in LastOctets : kcontainerIP' = StartAddress(cfgIP, o)
    ELSE UNCHANGED <<links, kvethHost, kcontainerIP>>

RootfsMissing_Never(exists) == FALSE

\* os.Stat(config.RootFS) reports that the path does not exist
RootfsMissing(exists) == ~exists

\* the rootfs has disappeared: Start returns without cleanup
StartRootfsMissing(t) ==
    /\ pc[t] = "idle" /\ kmutex = NoTask
    /\ StartAllowed(kstate)
    /\ RootfsMissing(rootfs)
    /\ StartVeth
    /\ Return(t)
    /\ UNCHANGED <<mvars, wvars, nvars, cfg, kcmd, kpid, launches, kst, kexitCode, kmutex, child, procReaped,
                   cmdWaitCalled, sigs, vethMoved, reaper, iptables, stopReturned,
                   observed>>

\* cmd.Start fails: cleanup, then the error
StartSpawnFails(t) ==
    /\ pc[t] = "idle" /\ kmutex = NoTask
    /\ StartAllowed(kstate)
    /\ ~RootfsMissing(rootfs)
    /\ IF cfgNet
       THEN /\ VethName \notin links
            /\ kvethHost' = VethName
            /\ \E o \in LastOctets : kcontainerIP' = StartAddress(cfgIP, o)
            /\ links' = deleteVethInterface(links \cup {VethName}, VethName)
       ELSE UNCHANGED <<links, kvethHost, kcontainerIP>>
    /\ Return(t)
    /\ UNCHANGED <<mvars, wvars, nvars, cfg, kcmd, kpid, launches, kst, kexitCode, kmutex, child, procReaped,
                   cmdWaitCalled, sigs, vethMoved, reaper, iptables, stopReturned,
                   observed>>

\* the child is launched; a Net handle keeps the mutex for the finalization
StartLaunch(t) ==
    /\ pc[t] = "idle" /\ kmutex = NoTask
    /\ StartAllowed(kstate)
    /\ ~RootfsMissing(rootfs)
    /\ StartVeth
    /\ IF cfgNet
       THEN /\ kmutex' = t
            /\ pc' = [pc EXCEPT ![t] = "start_net"]
            /\ werr' = werr
       ELSE /\ kmutex' = kmutex
            /\ Return(t)
    /\ kpid' = 1
    /\ kcmd' = TRUE
    /\ SetState(StateRunning)
    /\ proc' = "running"
    /\ launches' = launches + 1
    /\ UNCHANGED <<mvars, wvars, nvars, cfg, kstopTime, kexitCode, procCode, procReaped, cmdWaitCalled,
                   sigs, vethMoved, reaper, iptables, stopReturned, observed>>

\* network finalization succeeds: veth moved, port forwards installed
StartNetDone(t) ==
    /\ pc[t] = "start_net"
    /\ proc = "running"
    /\ vethMoved' = TRUE
    /\ iptables' = addAll(iptables, cfgPorts, kcontainerIP)
    /\ kmutex' = NoTask
    /\ Return(t)
    /\ UNCHANGED <<mvars, wvars, nvars, cfg, kid, kst, kexitCode, child, procReaped, cmdWaitCalled,
                   sigs, reaper, links, stopReturned, observed>>

\* a finalization step fails after n port forwards were installed: Start calls
\* k.Stop() while it holds the non-reentrant handle mutex and blocks in Lock
StartNetFails(t) ==
    /\ pc[t] = "start_net"
    /\ \E moved \in BOOLEAN, n \in 0..Len(cfgPorts) :
          /\ (n > 0 => moved)
          /\ (moved => proc = "running")
          /\ vethMoved' = moved
          /\ iptables' = addAll(iptables, SubSeq(cfgPorts, 1, n), kcontainerIP)
    /\ pc' = [pc EXCEPT ![t] = "start_stop"]
    /\ UNCHANGED <<mvars, wvars, nvars, cfg, kid, kst, kexitCode, kmutex, child, procReaped, cmdWaitCalled,
                   sigs, reaper, links, werr, stopReturned, observed>>

Start(t) ==
    \/ StartRefused(t)
    \/ StartVethFails(t)
    \/ StartRootfsMissing(t)
    \/ StartSpawnFails(t)
    \/ StartLaunch(t)
    \/ StartNetDone(t)
    \/ StartNetFails(t)

\* ------------------------------- Start's finalization, one command at a time
\* the order of the commands Start runs after the launch
NextFinal(step) ==
    CASE step = "move" -> "rename"
      [] step = "rename" -> "up"
      [] step = "up" -> "hostveth"
      [] step = "hostveth" -> "addr"
      [] step = "addr" -> "route"
      [] step = "route" -> "ports"

\* the command of a step succeeds: the namespace of the child is there, and
\* ip addr add / ip route add do not find their entry already present
FinalOK(step) ==
    /\ proc = "running"
    /\ step = "addr" => ~nsAddr
    /\ step = "route" => ~nsRoute

FinalizeStep(t) ==
    /\ pc[t] = "start_net" /\ ppc \in {"move", "rename", "up", "hostveth", "addr", "route"}
    /\ FinalOK(ppc)
    /\ ppc' = NextFinal(ppc)
    /\ eth0' = CASE ppc = "move" -> "moved" [] ppc = "rename" -> "eth0" [] OTHER -> eth0
    /\ vethMoved' = (vethMoved \/ ppc = "move")
    /\ eth0Up' = (eth0Up \/ ppc = "up")
    /\ nsAddr' = (nsAddr \/ ppc = "addr")
    /\ nsRoute' = (nsRoute \/ ppc = "route")
    /\ UNCHANGED <<mvars, wvars, cfg, kid, kst, kexitCode, kmutex, child, procReaped,
                   cmdWaitCalled, sigs, reaper, host, pc, werr, stopReturned, observed,
                   cpc, tries, crun, seen>>

\* a command fails: Start calls k.Stop() with the handle mutex held
FinalizeFails(t) ==
    /\ pc[t] = "start_net" /\ ppc \in {"move", "rename", "up", "hostveth", "addr", "route"}
    /\ ~FinalOK(ppc)
    /\ ppc' = "failed"
    /\ pc' = [pc EXCEPT ![t] = "start_stop"]
    /\ UNCHANGED <<mvars, wvars, cfg, kid, kst, kexitCode, kmutex, child, procReaped,
                   cmdWaitCalled, sigs, vethMoved, reaper, host, werr, stopReturned, observed,
                   cpc, eth0, eth0Up, nsAddr, nsRoute, tries, crun, seen>>

\* the port forwards are installed and Start returns nil
FinalizePorts(t) ==
    /\ pc[t] = "start_net" /\ ppc = "ports"
    /\ iptables' = addAll(iptables, cfgPorts, kcontainerIP)
    /\ ppc' = "done"
    /\ kmutex' = NoTask
    /\ Return(t)
    /\ UNCHANGED <<mvars, wvars, cfg, kid, kst, kexitCode, child, procReaped, cmdWaitCalled,
                   sigs, vethMoved, reaper, links, stopReturned, observed,
                   cpc, eth0, eth0Up, nsAddr, nsRoute, tries, crun, seen>>

\* ------------------------------------------- RunChild, the network part
RouteTries == 5

\* hostname, mounts and /dev are set up, lo is brought up
ChildSetup ==
    /\ cpc = "setup" /\ proc = "running"
    /\ cpc' = "addr"
    /\ UNCHANGED <<kvars, mvars, wvars, ppc, eth0, eth0Up, nsAddr, nsRoute, tries, crun, seen>>

\* ip addr add <ip>/24 dev eth0 succeeds when eth0 is there without the address
ChildAddrOK == eth0 = "eth0" /\ ~nsAddr

\* the child adds the address, or returns the error and exits with code 1
ChildAddr ==
    /\ cpc = "addr" /\ proc = "running"
    /\ IF ChildAddrOK
       THEN /\ nsAddr' = TRUE
            /\ cpc' = "route"
            /\ UNCHANGED <<proc, procCode>>
       ELSE /\ cpc' = "failed"
            /\ proc' = "exited"
            /\ procCode' = 1
            /\ UNCHANGED nsAddr
    /\ UNCHANGED <<mvars, wvars, cfg, kid, kst, kexitCode, kmutex, procReaped, cmdWaitCalled,
                   sigs, vethMoved, reaper, host, pc, werr, stopReturned, observed,
                   ppc, eth0, eth0Up, nsRoute, tries, crun, seen>>

\* ip route add default via <gateway> succeeds when the gateway is reachable
\* and there is no default route yet
ChildRouteOK == nsAddr /\ eth0Up /\ ~nsRoute

\* one attempt of the route loop; the error of the loop is a variable of its
\* own, so the child goes on to the command after the last attempt as well
ChildRoute ==
    /\ cpc = "route" /\ proc = "running"
    /\ IF ChildRouteOK
       THEN /\ nsRoute' = TRUE
            /\ cpc' = "exec"
            /\ UNCHANGED tries
       ELSE /\ tries' = tries + 1
            /\ cpc' = IF tries + 1 = RouteTries THEN "exec" ELSE "route"
            /\ UNCHANGED nsRoute
    /\ UNCHANGED <<kvars, mvars, wvars, ppc, eth0, eth0Up, nsAddr, crun, seen>>

\* ------------------------------------------------------------ allocateIP
\* an IPv4 address as a number
IPv4(a, b, c, d) == ((a * 256 + b) * 256 + c) * 256 + d

NoAddr == 0

\* the number of addresses of a prefix of length n
BlockSize(n) == 2 ^ (32 - n)

\* net.ParseCIDR: the IPNet holds the address with the host bits cleared
ParseCIDR(s) == [ip |-> s.addr - (s.addr % BlockSize(s.len)), len |-> s.len]

RandRange == 253

\* the address of the IPNet with its fourth byte set to rand.Intn(253) + 2
allocateIP(s, rnd) ==
    LET ipnet == ParseCIDR(s) IN
    ipnet.ip - (ipnet.ip % 256) + (rnd + 2)

\* the subnet strings of a deployment: address and prefix length
Subnets ==
    {[addr |-> IPv4(10, 0, 0, 0), len |-> 24], [addr |-> IPv4(10, 0, 0, 5), len |-> 24],
     [addr |-> IPv4(10, 0, 0, 0), len |-> 16], [addr |-> IPv4(10, 0, 0, 128), len |-> 25],
     [addr |-> IPv4(10, 0, 1, 16), len |-> 28]}

\* the gateway strings of a deployment: none, the default, others in 10.0.0.0/24
Gateways == {NoAddr, IPv4(10, 0, 0, 1), IPv4(10, 0, 0, 2), IPv4(10, 0, 0, 254)}

DefaultGateway == IPv4(10, 0, 0, 1)

\* createNetworks: the gateway of the network record
GatewayIP(subnet, gateway) == IF gateway # NoAddr THEN gateway ELSE DefaultGateway

InSubnet(ip, s) == ip \div BlockSize(s.len) = s.addr \div BlockSize(s.len)

NetworkAddr(s) == ParseCIDR(s).ip

BroadcastAddr(s) == ParseCIDR(s).ip + BlockSize(s.len) - 1

\* Start of a Net handle of a network with this subnet and gateway
DoAllocateIP ==
    /\ fcall = NoCall
    /\ \E s \in Subnets, g \in Gateways, rnd \in 0..(RandRange - 1) :
         fcall' = [fn |-> "allocateIP", subnet |-> s, gateway |-> GatewayIP(s, g),
                   ip |-> allocateIP(s, rnd)]
    /\ UNCHANGED <<kvars, mvars, wvars, ppc, cpc, eth0, eth0Up, nsAddr, nsRoute, tries, crun,
                   waitReturned>>

\* ------------------------------------------- container IDs and veth names
\* strings are sequences of characters
Str(n, alphabet) == UNION {[1..k -> alphabet] : k \in 0..n}

\* strings.Split(s, "_"): the pieces between the underscores, in order
RECURSIVE Split(_)
Split(str) ==
    IF \A i \in 1..Len(str) : str[i] # "_"
    THEN <<str>>
    ELSE LET i == CHOOSE j \in 1..Len(str) :
                      str[j] = "_" /\ \A k \in 1..(j - 1) : str[k] # "_"
         IN <<SubSeq(str, 1, i - 1)>> \o Split(SubSeq(str, i + 1, Len(str)))

ShortLen == 6

\* the second piece of the ID cut to six characters, or the whole ID when it
\* has no underscore
shortID(fullID) ==
    LET parts == Split(fullID) IN
    IF Len(parts) < 2 THEN fullID
    ELSE IF Len(parts[2]) > ShortLen THEN SubSeq(parts[2], 1, ShortLen)
    ELSE parts[2]

HexLen == 16

\* hex strings of eight random bytes: the first six digits alike, the last ten
\* alike
HexSamples == {[i \in 1..HexLen |-> IF i <= ShortLen THEN x ELSE y] : x, y \in {"0", "f"}}

\* GenerateID(prefix): prefix, underscore, sixteen hex digits
GenerateID(prefix, hex) == prefix \o <<"_">> \o hex

KittenPrefix == <<"k", "i", "t", "t", "e", "n">>

\* NewKitten: the ID of the configuration, or a generated one when it is empty
NewKittenID(id, hex) == IF id = <<>> THEN GenerateID(KittenPrefix, hex) ELSE id

\* createVethPair: the names of the two ends
vethHostName(id) == <<"v", "e", "t", "h">> \o shortID(id)
vethContainerName(id) == <<"v", "e", "t", "h", "c">> \o shortID(id)

PureFrame ==
    UNCHANGED <<kvars, mvars, wvars, ppc, cpc, eth0, eth0Up, nsAddr, nsRoute, tries, crun,
                waitReturned>>

\* the veth names of one handle
DoVethNames ==
    /\ fcall = NoCall
    /\ \E cid \in Str(MaxPlainLen, {"a", "_"}), hex \in HexSamples :
         LET id == NewKittenID(cid, hex) IN
         fcall' = [fn |-> "createVethPair", id |-> id,
                   host |-> vethHostName(id), peer |-> vethContainerName(id)]
    /\ PureFrame

\* the veth names of two handles
DoVethNamesOfTwo ==
    /\ fcall = NoCall
    /\ \E c1, c2 \in Str(MaxIDLen, {"a", "b", "_"}), h1, h2 \in HexSamples :
         LET id1 == NewKittenID(c1, h1)
             id2 == NewKittenID(c2, h2) IN
         fcall' = [fn |-> "createVethPair2", id1 |-> id1, id2 |-> id2,
                   host1 |-> vethHostName(id1), peer1 |-> vethContainerName(id1),
                   host2 |-> vethHostName(id2), peer2 |-> vethContainerName(id2)]
    /\ PureFrame

\* ------------------------------------------------ RunChild, step by step
\* where RunChild goes on after the UTS block and after the Mount block
AfterUTS(c) == IF c.mount THEN "private" ELSE IF c.net THEN "lo" ELSE "env"
AfterMount(c) == IF c.net THEN "lo" ELSE "env"

\* a step is made: it is added to the trace of the child
Made(r, step) == [r EXCEPT !.trace = Append(@, step)]

\* return fmt.Errorf(msg, err): main prints the error and exits with code 1
ReturnsError(r, msg) == [r EXCEPT !.pc = "exited", !.ret = msg, !.code = 1]

\* err = <call>; if err != nil { return the error }
Checked(step, ok, msg, next) ==
    LET r == [Made(childRun, step) EXCEPT !.err = ~ok] IN
    childRun' = IF ok THEN [r EXCEPT !.pc = next] ELSE ReturnsError(r, msg)

ChildFrame ==
    UNCHANGED <<kvars, mvars, wvars, ppc, cpc, eth0, eth0Up, nsAddr, nsRoute, tries, childCfg, seen>>

RunUnmarshal ==
    /\ childRun.pc = "unmarshal"
    /\ \E ok \in BOOLEAN :
         Checked("unmarshal", ok, "failed to unmarshal config",
                 IF childCfg.uts THEN "hostname" ELSE AfterUTS(childCfg))
    /\ ChildFrame

RunHostname ==
    /\ childRun.pc = "hostname"
    /\ \E ok \in BOOLEAN :
         Checked("hostname", ok, "failed to set hostname", AfterUTS(childCfg))
    /\ ChildFrame

RunPrivate ==
    /\ childRun.pc = "private"
    /\ \E ok \in BOOLEAN : Checked("private", ok, "failed to make / private", "pivot")
    /\ ChildFrame

\* pivotRoot: its failure is logged and chroot is tried instead
RunPivot ==
    /\ childRun.pc = "pivot"
    /\ \E ok \in BOOLEAN :
         childRun' = [Made(childRun, "pivot") EXCEPT
                         !.err = ~ok, !.pc = IF ok THEN "chdir" ELSE "chroot"]
    /\ ChildFrame

RunChroot ==
    /\ childRun.pc = "chroot"
    /\ \E ok \in BOOLEAN : Checked("chroot", ok, "failed to chroot", "chdir")
    /\ ChildFrame

RunChdirRoot ==
    /\ childRun.pc = "chdir"
    /\ \E ok \in BOOLEAN :
         Checked("chdir", ok, "failed to chdir to /",
                 IF childCfg.mounts > 0 THEN "mount" ELSE "dev")
    /\ ChildFrame

MountFatal_OnError(ok) == ~ok

\* the failure of mountFilesystem is logged as a warning, nothing is returned
MountFatal(ok) == FALSE

\* one round of the loop over config.Mounts; err keeps the result of the call
RunMount ==
    /\ childRun.pc = "mount"
    /\ \E ok \in BOOLEAN :
         LET r == [Made(childRun, "mount") EXCEPT
                      !.err = ~ok, !.i = @ + 1, !.mountFailed = @ \/ ~ok] IN
         childRun' = IF MountFatal(ok)
                     THEN ReturnsError(r, "failed to mount")
                     ELSE [r EXCEPT !.pc = IF r.i = childCfg.mounts THEN "dev" ELSE "mount"]
    /\ ChildFrame

\* ensureMinDev: its error is a variable of the if statement, err is not written
RunDev ==
    /\ childRun.pc = "dev"
    /\ \E ok \in BOOLEAN :
         LET r == Made(childRun, "dev") IN
         childRun' = IF ok THEN [r EXCEPT !.pc = AfterMount(childCfg)]
                     ELSE ReturnsError(r, "failed to setup /dev")
    /\ ChildFrame

RunLo ==
    /\ childRun.pc = "lo"
    /\ \E ok \in BOOLEAN : Checked("lo", ok, "failed to bring up loopback", "addr")
    /\ ChildFrame

RunAddr ==
    /\ childRun.pc = "addr"
    /\ \E ok \in BOOLEAN : Checked("addr", ok, "failed to add IP to eth0", "route")
    /\ ChildFrame

\* for i := 0; i < 5; i++ { ...; if err == nil { break } ... }
RouteLoopEnds(n, ok) == ok \/ n = RouteTries

\* one attempt of the route loop: the err it tests is declared in the loop
\* body, the err of the function is not written
RunRoute ==
    /\ childRun.pc = "route"
    /\ \E ok \in BOOLEAN :
         LET r == [Made(childRun, "route") EXCEPT !.tries = @ + 1, !.routed = ok] IN
         childRun' = [r EXCEPT !.pc = IF RouteLoopEnds(r.tries, ok) THEN "routecheck" ELSE "route"]
    /\ ChildFrame

\* if err != nil after the loop, on the err of the function
RunRouteCheck ==
    /\ childRun.pc = "routecheck"
    /\ childRun' = IF childRun.err
                   THEN ReturnsError(childRun, "failed to add default route")
                   ELSE [childRun EXCEPT !.pc = "env"]
    /\ ChildFrame

\* config.Env, PATH and HOME are set; os.Setenv's result is not looked at
RunEnv ==
    /\ childRun.pc = "env"
    /\ childRun' = [Made(childRun, "env") EXCEPT
                       !.pc = IF childCfg.workdir THEN "workdir" ELSE "exec"]
    /\ ChildFrame

RunWorkdir ==
    /\ childRun.pc = "workdir"
    /\ \E ok \in BOOLEAN : Checked("workdir", ok, "failed to chdir", "exec")
    /\ ChildFrame

\* cmd.Run() of the user command, then os.Exit with its exit code, or with 1
\* when it could not be run
RunExec ==
    /\ childRun.pc = "exec"
    /\ \E c \in UserExitCodes \cup {1} :
         childRun' = [Made(childRun, "exec") EXCEPT !.pc = "exited", !.code = c]
    /\ ChildFrame

RunChild ==
    \/ RunUnmarshal \/ RunHostname \/ RunPrivate \/ RunPivot \/ RunChroot \/ RunChdirRoot
    \/ RunMount \/ RunDev \/ RunLo \/ RunAddr \/ RunRoute \/ RunRouteCheck
    \/ RunEnv \/ RunWorkdir \/ RunExec

\* ------------------------------------------------------------ Kitten.Wait
\* k.cmd is read without the mutex; nil means the handle was never started
WaitNotStarted(t) ==
    /\ pc[t] = "idle"
    /\ ~kcmd
    /\ Return(t)
    /\ UNCHANGED <<mvars, wvars, nvars, cfg, kid, kst, kexitCode, kmutex, child, procReaped, cmdWaitCalled,
                   sigs, vethMoved, reaper, host, stopReturned, observed>>

\* cmd.Wait() is entered.  The first caller blocks until the child exits.  A
\* caller that finds Wait already called races with the first one on the Cmd:
\* it returns "Wait was already called" at once, or blocks in Process.Wait too.
CmdWaitEnter(already, reaped, blockChoice) ==
    IF ~already THEN "block"
    ELSE IF reaped THEN "error"
    ELSE IF blockChoice THEN "block" ELSE "error"

WaitCall(t) ==
    /\ pc[t] = "idle"
    /\ kcmd
    /\ \E b \in BOOLEAN :
         LET how == CmdWaitEnter(cmdWaitCalled, procReaped, b) IN
         /\ pc' = [pc EXCEPT ![t] = IF how = "block" THEN "wait_block" ELSE "wait_lock"]
         /\ werr' = [werr EXCEPT ![t] = (how = "error")]
    /\ cmdWaitCalled' = TRUE
    /\ UNCHANGED <<mvars, wvars, nvars, cfg, kid, kst, kexitCode, kmutex, child, procReaped,
                   sigs, vethMoved, reaper, host, stopReturned, observed>>

\* the child has exited: the first waiter collects the status, any other one
\* gets an error that is not an ExitError
WaitUnblock(t) ==
    /\ pc[t] = "wait_block"
    /\ proc = "exited"
    /\ werr' = [werr EXCEPT ![t] = procReaped]
    /\ procReaped' = TRUE
    /\ pc' = [pc EXCEPT ![t] = "wait_lock"]
    /\ UNCHANGED <<mvars, wvars, nvars, cfg, kid, kst, kexitCode, kmutex, child, cmdWaitCalled,
                   sigs, vethMoved, reaper, host, stopReturned, observed>>

\* exit code recorded by Wait: the status, or 1 on any other error
WaitExitCode(err, code) == IF err THEN 1 ELSE code

\* under the mutex: state, stop time and exit code are written
WaitRecord(t) ==
    /\ pc[t] = "wait_lock" /\ kmutex = NoTask
    /\ SetState(StateStopped)
    /\ kstopTime' = TRUE
    /\ kexitCode' = WaitExitCode(werr[t], procCode)
    /\ pc' = [pc EXCEPT ![t] = "wait_cleanup"]
    /\ UNCHANGED <<mvars, wvars, nvars, cfg, kid, kmutex, child, procReaped, cmdWaitCalled,
                   sigs, vethMoved, reaper, host, werr, stopReturned, observed>>

\* the first result of Wait: the exitCode field as it is when Wait returns,
\* read after the mutex was released
WaitReturnValue == kexitCode

\* cleanup() outside the mutex, then k.exitCode is read for the return value
WaitReturn(t) ==
    /\ pc[t] = "wait_cleanup"
    /\ iptables' = cleanupTable(iptables)
    /\ links' = cleanupLinks(links)
    /\ waitReturned' = IF waitReturned.on
                       THEN [waitReturned EXCEPT !.codes = @ \cup {WaitReturnValue}]
                       ELSE waitReturned
    /\ Return(t)
    /\ UNCHANGED <<mvars, wvars, ppc, cpc, eth0, eth0Up, nsAddr, nsRoute, tries, crun, fcall, cfg, kid, kst, kexitCode, kmutex, child, procReaped, cmdWaitCalled,
                   sigs, vethMoved, reaper, stopReturned, observed>>

\* none of the goroutines of the process has panicked
Alive == \A t \in Tasks : pc[t] # "panic"

\* a panic in one goroutine ends the process and every goroutine with it
Panic == pc' = [t \in Tasks |-> "panic"]

\* cleanup() in Wait with the host veth gone: the rules are removed, then
\* netlink.LinkDel gets the nil Link; it either returns an error, which cleanup
\* drops (WaitReturn), or its call through the nil interface panics
WaitCleanupPanics(t) ==
    /\ pc[t] = "wait_cleanup"
    /\ cfgNet /\ NilLink(links, kvethHost)
    /\ iptables' = cleanupTable(iptables)
    /\ Panic
    /\ UNCHANGED <<mvars, wvars, nvars, cfg, kid, kst, kexitCode, kmutex, child, procReaped, cmdWaitCalled,
                   sigs, vethMoved, reaper, links, werr, stopReturned, observed>>

Wait(t) ==
    \/ WaitNotStarted(t) \/ WaitCall(t) \/ WaitUnblock(t) \/ WaitRecord(t) \/ WaitReturn(t)
    \/ WaitCleanupPanics(t)

\* ------------------------------------------------------------ Kitten.Stop
\* Stop is entered by a caller, or by Start after a failed finalization step;
\* its first statement locks the handle mutex
StopEntered(t) == pc[t] = "idle" \/ pc[t] = "start_stop"

StopRefused_Never(st, cmd) == FALSE

\* the two early returns of Stop: the state is not Running, or there is no
\* process to stop
StopRefused(st, cmd) == st # StateRunning \/ ~cmd

StopNotRunning(t) ==
    /\ StopEntered(t) /\ kmutex = NoTask
    /\ StopRefused(kstate, kcmd)
    /\ Return(t)
    /\ UNCHANGED <<mvars, wvars, nvars, cfg, kid, kst, kexitCode, kmutex, child, procReaped, cmdWaitCalled,
                   sigs, vethMoved, reaper, host, stopReturned, observed>>

\* Process.Signal on a process that was already waited for fails
StopSignalFails(t) ==
    /\ StopEntered(t) /\ kmutex = NoTask
    /\ ~StopRefused(kstate, kcmd)
    /\ procReaped
    /\ Return(t)
    /\ UNCHANGED <<mvars, wvars, nvars, cfg, kid, kst, kexitCode, kmutex, child, procReaped, cmdWaitCalled,
                   sigs, vethMoved, reaper, host, stopReturned, observed>>

\* SIGTERM is sent and the reaping goroutine is spawned; Stop waits in select
StopSignal(t) ==
    /\ StopEntered(t) /\ kmutex = NoTask
    /\ ~StopRefused(kstate, kcmd)
    /\ ~procReaped
    /\ kmutex' = t
    /\ sigTerm' = TRUE
    /\ reaper' = "spawned"
    /\ pc' = [pc EXCEPT ![t] = "stop_select"]
    /\ UNCHANGED <<mvars, wvars, nvars, cfg, kid, kst, kexitCode, child, procReaped, cmdWaitCalled,
                   sigKill, vethMoved, host, werr, stopReturned, observed>>

\* the goroutine of Stop calls k.cmd.Wait()
ReaperCall ==
    /\ Alive
    /\ reaper = "spawned"
    /\ \E b \in BOOLEAN :
         LET how == CmdWaitEnter(cmdWaitCalled, procReaped, b) IN
         reaper' = IF how = "block" THEN "blocked" ELSE "done"
    /\ cmdWaitCalled' = TRUE
    /\ UNCHANGED <<mvars, wvars, nvars, cfg, kid, kst, kexitCode, kmutex, child, procReaped,
                   sigs, vethMoved, host, pc, werr, stopReturned, observed>>

ReaperUnblock ==
    /\ Alive
    /\ reaper = "blocked"
    /\ proc = "exited"
    /\ reaper' = "done"
    /\ procReaped' = TRUE
    /\ UNCHANGED <<mvars, wvars, nvars, cfg, kid, kst, kexitCode, kmutex, child, cmdWaitCalled,
                   sigs, vethMoved, host, pc, werr, stopReturned, observed>>

\* the tail of Stop: state, stop time, cleanup, unlock, return nil
StopFinish(t) ==
    /\ SetState(StateStopped)
    /\ kstopTime' = TRUE
    /\ iptables' = cleanupTable(iptables)
    /\ links' = cleanupLinks(links)
    /\ kmutex' = NoTask
    /\ Return(t)

\* select: the goroutine reported on done
StopDone(t) ==
    /\ pc[t] = "stop_select"
    /\ reaper = "done"
    /\ StopFinish(t)
    /\ stopReturned' = IF proc = "exited" THEN "exited" ELSE "alive"
    /\ UNCHANGED <<mvars, wvars, nvars, cfg, kid, kexitCode, child, procReaped, cmdWaitCalled,
                   sigs, vethMoved, reaper, observed>>

\* select: five seconds passed with the child still running: Process.Kill
StopTimeout(t) ==
    /\ pc[t] = "stop_select"
    /\ reaper # "done"
    /\ proc = "running"
    /\ termBehaviour = "ignores"
    /\ sigKill' = TRUE
    /\ StopFinish(t)
    /\ stopReturned' = "killed"
    /\ UNCHANGED <<mvars, wvars, nvars, cfg, kid, kexitCode, child, procReaped, cmdWaitCalled,
                   sigTerm, vethMoved, reaper, observed>>

\* the tail of Stop with the host veth gone: as in WaitCleanupPanics, the
\* call of netlink.LinkDel on the nil Link panics before Stop unlocks
StopCleanupPanics(t) ==
    /\ pc[t] = "stop_select"
    /\ reaper = "done" \/ (proc = "running" /\ termBehaviour = "ignores")
    /\ cfgNet /\ NilLink(links, kvethHost)
    /\ sigKill' = (sigKill \/ reaper # "done")
    /\ SetState(StateStopped)
    /\ kstopTime' = TRUE
    /\ iptables' = cleanupTable(iptables)
    /\ Panic
    /\ UNCHANGED <<mvars, wvars, nvars, cfg, kid, kexitCode, kmutex, child, procReaped, cmdWaitCalled,
                   sigTerm, vethMoved, reaper, links, werr, stopReturned, observed>>

Stop(t) ==
    \/ StopCleanupPanics(t)
    \/ StopNotRunning(t)
    \/ StopSignalFails(t)
    \/ StopSignal(t)
    \/ StopDone(t)
    \/ StopTimeout(t)

\* ----------------------------------------------------------- Kitten.State
State(t) ==
    /\ pc[t] = "idle" /\ kmutex = NoTask
    /\ observed' = IF observed # <<>> /\ observed[Len(observed)] = kstate
                   THEN observed ELSE Append(observed, kstate)
    /\ Return(t)
    /\ UNCHANGED <<mvars, wvars, nvars, cfg, kid, kst, kexitCode, kmutex, child, procReaped, cmdWaitCalled,
                   sigs, vethMoved, reaper, host, stopReturned>>

\* ------------------------------------------------------- the child process
\* the user command finishes on its own
ChildExits ==
    /\ proc = "running"
    /\ proc' = "exited"
    /\ \E c \in UserExitCodes : procCode' = c
    /\ UNCHANGED <<mvars, wvars, nvars, cfg, kid, kst, kexitCode, kmutex, procReaped, cmdWaitCalled,
                   sigs, vethMoved, reaper, host, pc, werr, stopReturned, observed>>

\* the child dies of SIGTERM (unless it ignores it) or of SIGKILL
ChildKilled ==
    /\ proc = "running"
    /\ (sigTerm /\ termBehaviour = "exits") \/ sigKill
    /\ proc' = "exited"
    /\ procCode' = SignalExit
    /\ UNCHANGED <<mvars, wvars, nvars, cfg, kid, kst, kexitCode, kmutex, procReaped, cmdWaitCalled,
                   sigs, vethMoved, reaper, host, pc, werr, stopReturned, observed>>

\* the kernel tears down the netns of the dead child and the veth pair with it
NetnsGone ==
    /\ proc = "exited" /\ vethMoved
    /\ VethName \in links
    /\ links' = links \ {VethName}
    /\ UNCHANGED <<mvars, wvars, nvars, cfg, kid, kst, kexitCode, kmutex, child, procReaped, cmdWaitCalled,
                   sigs, vethMoved, reaper, iptables, pc, werr, stopReturned, observed>>

\* ------------------------------------------------------------- claims (K)
IsPrefix(s, t) == Len(s) <= Len(t) /\ \A i \in 1..Len(s) : s[i] = t[i]

Rank(st) == CASE st = StateCreated -> 1 [] st = StateRunning -> 2 [] OTHER -> 3

\* C1: the values the state field takes are, in order, a prefix of Created,
\* Running, Stopped (no step back, no step from Created to Stopped, no step
\* out of Stopped), and what the callers of State() see, in order, only ever
\* advances along that sequence.
C1_StatePrefix ==
    /\ IsPrefix(stateSeq, <<StateCreated, StateRunning, StateStopped>>)
    /\ \A i \in 1..(Len(observed) - 1) : Rank(observed[i]) < Rank(observed[i + 1])

C1_Witness ==
    /\ observed = <<StateCreated, StateRunning, StateStopped>>
    /\ \E t \in Tasks : pc[t] = "wait_cleanup"

\* C6: once Stop on a Running handle has returned nil, the handle is Stopped,
\* the nat table holds no DNAT or MASQUERADE rule for the handle's address, and
\* the handle's host-side veth is not among the host's links.
C6_StopCleansUp ==
    stopReturned # "no" =>
        /\ kstate = StateStopped
        /\ ~HasRuleFor(kcontainerIP)
        /\ kvethHost \notin links

C6_Witness ==
    /\ stopReturned # "no"
    /\ cfgNet /\ vethMoved /\ Len(cfgPorts) = MaxPorts
    /\ kcontainerIP # NoIP

\* a step of Start on a Created handle fails
StartFailure(t) ==
    \/ StartVethFails(t) \/ StartRootfsMissing(t) \/ StartSpawnFails(t) \/ StartNetFails(t)

\* C13: a failing step of Start leaves the handle in state Error, and a handle
\* in state Error stays there: no child is launched and no signal is sent for
\* it any more.
C13_FailedStartIsError ==
    [][/\ \A t \in Tasks : StartFailure(t) => kstate' = StateError
       /\ kstate = StateError =>
              /\ kstate' = StateError
              /\ launches' = launches
              /\ sigTerm' = sigTerm /\ sigKill' = sigKill]_vars

\* C14: as long as every Start of a Net handle has returned an error (k.cmd is
\* unset: no child was launched), the host has neither the handle's veth nor a
\* port-forward rule of it.
C14_FailedStartCleansUp ==
    (cfgNet /\ ~kcmd) => (VethName \notin links /\ iptables = <<>>)

\* C15: when a finalization step of Start has failed and Start is at its call
\* of Stop, the call of Start eventually returns and the handle is then not
\* Running.
C15_FailedFinalizationReturns ==
    \A t \in Tasks :
        (pc[t] = "start_stop") ~> (pc[t] = "idle" /\ kstate # StateRunning)

\* C16: a call of Stop on a handle that is not Running returns at once; it
\* sends no signal, runs no cleanup and leaves the state, the PID, the exit
\* code and the stop time as they were.
C16_StopRefusedChangesNothing ==
    [][\A t \in Tasks :
          (pc[t] = "idle" /\ kstate # StateRunning /\ Stop(t)) =>
              /\ pc'[t] = "idle"
              /\ UNCHANGED <<sigTerm, sigKill, reaper, links, iptables,
                             kstate, kpid, kexitCode, kstopTime>>]_vars

\* a handle that is Stopped while its child is alive, unsignalled and not
\* reaped: the state in which a refused Stop differs from a Stop that goes on
C16_Witness ==
    /\ kstate = StateStopped /\ kcmd /\ proc = "running"
    /\ ~procReaped /\ ~sigTerm /\ kmutex = NoTask
    /\ \E t \in Tasks : pc[t] = "idle"

\* C17: a call of Start on a handle that is not Created returns at once; it
\* launches no child, creates no veth and leaves the state, the PID and the
\* address as they were; a handle launches at most one child.
C17_StartOnlyOnce ==
    /\ [](launches <= 1)
    /\ [][\A t \in Tasks :
            (pc[t] = "idle" /\ kstate # StateCreated /\ Start(t)) =>
                /\ pc'[t] = "idle"
                /\ UNCHANGED <<launches, kcmd, links, iptables,
                               kstate, kpid, kcontainerIP>>]_vars

\* a handle that was started and stopped, on which Start can be called again
C17_Witness ==
    /\ kstate = StateStopped /\ launches = 1 /\ stopReturned # "no"
    /\ kmutex = NoTask
    /\ \E t \in Tasks : pc[t] = "idle"

\* C18: no child is forked for a rootfs that does not exist: a configuration
\* whose rootfs is missing yields no handle and so no child, and a step that
\* launches a child is taken only when Start found the rootfs on disk.
C18_NoLaunchWithoutRootfs ==
    /\ [](kstate = NoKitten => (launches = 0 /\ proc = "none" /\ ~kcmd))
    /\ [][launches' > launches => rootfs]_vars

\* the rootfs went away after the handle was made, and Start has been called:
\* it created the veth pair and returned without launching
C18_Witness ==
    /\ kstate = StateCreated /\ ~rootfs
    /\ cfgNet /\ VethName \in links
    /\ launches = 0 /\ proc = "none"

\* C19: when Wait returns on a started handle, the exit code it returns is
\* the exit status this call collected from the child (1 when its cmd.Wait
\* failed otherwise), and the handle is Stopped.
C19_WaitReturnsExitCode ==
    [][\A t \in Tasks :
          WaitReturn(t) =>
              /\ WaitReturnValue = WaitExitCode(werr[t], procCode)
              /\ kstate' = StateStopped]_vars

\* C21: when the configuration supplies a static address, the address Start
\* records on the handle, and the address in every port-forward rule it
\* installs, is that address.
C21_StaticIPUsed ==
    (cfgIP # NoIP /\ kcontainerIP # NoIP) =>
        /\ kcontainerIP = cfgIP
        /\ \A i \in 1..Len(iptables) :
               iptables[i][1] = "DNAT" => iptables[i][4] = cfgIP

\* C27: on every host, CreateBridge followed by CreateBridge with the same
\* name returns no error either time the first call returned none, and the
\* second call leaves the links and the rules of the host as the first one
\* left them, with the bridge among the links.
C27_CreateBridgeIdempotent ==
    LET first == CreateBridge(Host, BridgeName)
        second == CreateBridge(first, BridgeName)
    IN ~first.err =>
          /\ ~second.err
          /\ second.links = first.links /\ second.rules = first.rules
          /\ BridgeName \in second.links

\* CreateBridge has made the bridge and installed its rules on a host that
\* had no link of that name
C27_Witness ==
    /\ BridgeName \in links
    /\ \E i \in 1..Len(iptables) : iptables[i] = FwdInRule(BridgeName)

\* C28: on every host, CreateBridge followed by DeleteBridge of the same name
\* leaves the links and the rules (with their multiplicities) that the host
\* had before the two calls.
C28_CreateDeleteRestores ==
    LET made == CreateBridge(Host, BridgeName)
        gone == DeleteBridge(made, BridgeName)
    IN ~made.err =>
          /\ gone.links = links
          /\ RuleBag(gone.rules) = RuleBag(iptables)

\* C29: in the finalization of a Net handle no command of Start fails and the
\* child does not fail in its network step; when both are through, eth0 is in
\* the namespace with the address and there is a default route.
C29_BothSidesSucceed ==
    /\ ppc # "failed" /\ cpc # "failed"
    /\ (ppc = "done" /\ cpc = "exec") => (eth0 = "eth0" /\ nsAddr /\ nsRoute)

\* C30: a run of cleanup() in Wait that comes after the run in a Stop that has
\* returned completes without failing and leaves the host's links and the nat
\* table as they were.
C30_CleanupIdempotent ==
    [][\A t \in Tasks :
          (stopReturned # "no" /\ pc[t] = "wait_cleanup" /\ pc'[t] # "wait_cleanup") =>
              /\ pc'[t] = "idle"
              /\ links' = links
              /\ iptables' = iptables]_vars

\* the place of a step in the order of RunChild
StepRank(step) ==
    CASE step = "unmarshal" -> 1 [] step = "hostname" -> 2 [] step = "private" -> 3
      [] step = "pivot" -> 4 [] step = "chroot" -> 5 [] step = "chdir" -> 6
      [] step = "mount" -> 7 [] step = "dev" -> 8 [] step = "lo" -> 9
      [] step = "addr" -> 10 [] step = "route" -> 11 [] step = "env" -> 12
      [] step = "workdir" -> 13 [] step = "exec" -> 14

Steps(r) == {r.trace[i] : i \in 1..Len(r.trace)}

Count(r, step) == Cardinality({i \in 1..Len(r.trace) : r.trace[i] = step})

C32_RouteRetries ==
    LET r == childRun IN
    /\ r.tries <= RouteTries /\ Count(r, "route") = r.tries
    /\ r.routed => r.pc # "route"
    /\ (r.tries = RouteTries /\ ~r.routed /\ r.pc \notin {"route", "routecheck"}) =>
           /\ r.ret = "failed to add default route"
           /\ "exec" \notin Steps(r)

\* C33: the address allocateIP returns for a subnet lies in the subnet, is
\* neither its network address nor its broadcast address, and has a last octet
\* in 2..254.
C33_AllocatedInSubnet ==
    fcall.fn = "allocateIP" =>
        /\ InSubnet(fcall.ip, fcall.subnet)
        /\ fcall.ip # NetworkAddr(fcall.subnet)
        /\ fcall.ip # BroadcastAddr(fcall.subnet)
        /\ fcall.ip % 256 \in 2..254

\* C34: the address the runtime assigns to a container is not the gateway
\* address of the container's network, whenever that gateway lies in the
\* subnet.
C34_NotTheGateway ==
    (fcall.fn = "allocateIP" /\ InSubnet(fcall.gateway, fcall.subnet)) =>
        fcall.ip # fcall.gateway

\* C35: two handles with different IDs have different host veth names and
\* different peer veth names.
C35_VethNamesInjective ==
    (fcall.fn = "createVethPair2" /\ fcall.id1 # fcall.id2) =>
        (fcall.host1 # fcall.host2 /\ fcall.peer1 # fcall.peer2)

\* C36: the host veth name and the peer veth name of a handle are at most 15
\* bytes long, whatever its ID.
C36_VethNamesFit ==
    fcall.fn = "createVethPair" => (Len(fcall.host) <= 15 /\ Len(fcall.peer) <= 15)

\* the goroutines that are inside k.cmd.Wait() on the handle's child
InCmdWait == {t \in Tasks : pc[t] = "wait_block"}
ReaperInCmdWait == IF reaper = "blocked" THEN 1 ELSE 0

\* C39: at most one goroutine at a time is inside cmd.Wait() on the child of
\* a handle: the reaping goroutine of Stop and a caller of Wait are never both
\* in it, and no two callers of Wait are.
C39_OneReaperAtATime ==
    Cardinality(InCmdWait) + ReaperInCmdWait <= 1

\* C40: the exit code a call of Wait has returned is what ExitCode() and
\* Info().ExitCode, which read the exitCode field, return in every later state.
C40_ExitCodeStable ==
    \A c \in waitReturned.codes : kexitCode = c

\* C7: SIGKILL is only sent after SIGTERM and only to a child that is still
\* running when the window ends, and when Stop returns nil the child has
\* exited or has been sent SIGKILL.
C7_StopTerminatesChild ==
    /\ (sigKill => sigTerm)
    /\ stopReturned \in {"no", "exited", "killed"}

NextK ==
    \/ \E t \in Tasks : Start(t) \/ Wait(t) \/ Stop(t) \/ State(t)
    \/ ReaperCall \/ ReaperUnblock
    \/ ChildExits \/ ChildKilled \/ NetnsGone

SpecK == Init /\ [][NextK]_vars

\* the same handle, with the exit codes that Wait returns recorded
InitExit ==
    /\ InitK /\ IdleM
    /\ IdleNet /\ NoChildRun /\ fcall = NoCall /\ waitReturned = WaitsRecorded

SpecExit == InitExit /\ [][NextK]_vars

SpecStatic == InitStatic /\ [][NextK]_vars

\* a Net handle right after cmd.Start returned in Start: the child runs in its
\* new namespaces, Start holds the handle mutex and begins the finalization
Launched ==
    /\ cfgNet = TRUE /\ cfgPorts \in PortSeqs /\ cfgIP = NoIP
    /\ termBehaviour = "exits" /\ rootfs = TRUE
    /\ kstate = StateRunning /\ stateSeq = <<StateCreated, StateRunning>>
    /\ kcmd = TRUE /\ kpid = 1 /\ launches = 1
    /\ kvethHost = VethName /\ links = {VethName} /\ kcontainerIP \in LastOctets
    /\ kexitCode = 0 /\ kstopTime = FALSE
    /\ kmutex = 1 /\ pc = [t \in Tasks |-> IF t = 1 THEN "start_net" ELSE "idle"]
    /\ werr = [t \in Tasks |-> FALSE]
    /\ proc = "running" /\ procCode = 0 /\ procReaped = FALSE /\ cmdWaitCalled = FALSE
    /\ sigTerm = FALSE /\ sigKill = FALSE /\ vethMoved = FALSE
    /\ reaper = "none" /\ stopReturned = "no" /\ iptables = <<>> /\ observed = <<>>

InitNet ==
    /\ Launched
    /\ IdleM
    /\ ppc = "move" /\ cpc = "setup" /\ eth0 = "host" /\ eth0Up = FALSE
    /\ nsAddr = FALSE /\ nsRoute = FALSE /\ tries = 0
    /\ NoChildRun /\ fcall = NoCall /\ waitReturned = WaitsUnrecorded

NextNet ==
    \/ \E t \in Tasks : FinalizeStep(t) \/ FinalizeFails(t) \/ FinalizePorts(t)
    \/ ChildSetup \/ ChildAddr \/ ChildRoute

SpecNet == InitNet /\ [][NextNet]_vars

\* every goroutine inside a call, and the reaping goroutine, keeps running
SpecKFair ==
    /\ Init /\ [][NextK]_vars
    /\ \A t \in Tasks : WF_vars(Start(t) \/ Wait(t) \/ Stop(t))
    /\ WF_vars(ReaperCall \/ ReaperUnblock)

\* ================================================================ Manager
Names == {"a", "b", "c"}
Undeclared == "x"
SupDeclared == {"a", "b"}                       \* the deployment of SpecSup
Policies == {"", "no", "always", "on-failure"}
Handle(h) == handles[h]

\* ------------------------------------------------ Kitten, as the manager sees it
\* NewKitten + Start of a handle without network succeeded: the child runs.
\* w: Cmd.Wait was never called ("none"), was called ("called"), or the exit
\* status has been collected ("reaped").  pid is the child's process id, set
\* by Start and never written again.
NewRunning(n) ==
    [name |-> n, state |-> StateRunning, proc |-> "running", code |-> 0,
     w |-> "none", exitCode |-> 0, pid |-> 1]

\* a handle that no map entry and no goroutine refers to, its child gone
Collected(n) ==
    [name |-> n, state |-> StateStopped, proc |-> "exited", code |-> 0,
     w |-> "reaped", exitCode |-> 0, pid |-> 1]

Referenced(h, mc, sp) ==
    \/ \E n \in DOMAIN mc : mc[n] = h
    \/ \E r \in BagToSet(sp) : r.h = h
    \/ h \in DOMAIN waiters /\ waiters[h].pc # "done"

\* the heap after a step: unreferenced handles of dead children are collected
Heap(hs, mc, sp) ==
    [h \in DOMAIN hs |->
        IF Referenced(h, mc, sp) \/ hs[h].proc = "running" THEN hs[h]
        ELSE Collected(hs[h].name)]

StopAllowed_AnyState(st) == TRUE

\* Stop goes on only from Running
StopAllowed(st) == st = StateRunning

\* Kitten.Stop from entry to return: the set of <<handle afterwards, error>>.
\* The child exits within the window or is killed at its end, and its status
\* goes to the reaping goroutine or to a Wait that was pending; when a Wait is
\* already pending on the Cmd, the reaping goroutine may also return at once
\* and Stop then returns with the child still running.
StopOutcomes(k) ==
    IF ~StopAllowed(k.state) \/ k.w = "reaped" THEN {<<k, TRUE>>}
    ELSE LET dead == [k EXCEPT !.state = StateStopped, !.proc = "exited",
                               !.code = IF k.proc = "exited" THEN k.code ELSE SignalExit]
         IN IF k.w = "none"
            THEN {<<[dead EXCEPT !.w = "reaped"], FALSE>>}
            ELSE {<<[dead EXCEPT !.w = "reaped"], FALSE>>, <<dead, FALSE>>} \cup
                 (IF k.proc = "running"
                  THEN {<<[k EXCEPT !.state = StateStopped], FALSE>>} ELSE {})

\* ------------------------------------------------------- dependency order
\* all dependencies of a container are started
canStart_Always(n) == TRUE

canStart_Declared(n) == \A i \in DOMAIN mDeps[n] : mDeps[n][i] \in mDeclared

canStart(n) == \A i \in DOMAIN mDeps[n] : mDeps[n][i] \in started

\* visit of getStopOrder: DFS post-order; st = <<order, visited>>
RECURSIVE visit(_, _)
RECURSIVE visitAll(_, _)
visit(st, n) ==
    IF n \in st[2] THEN st
    ELSE LET ds == IF n \in mDeclared THEN mDeps[n] ELSE <<>>
             r == visitAll(<<st[1], st[2] \cup {n}>>, ds)
         IN <<Append(r[1], n), r[2]>>
visitAll(st, ns) ==
    IF ns = <<>> THEN st ELSE visitAll(visit(st, Head(ns)), Tail(ns))

Reverse(q) == [i \in 1..Len(q) |-> q[Len(q) + 1 - i]]

getStopOrder_NoReverse(iter) == visitAll(<<<<>>, {}>>, iter)[1]

\* getStopOrder for one iteration order of the deps map
getStopOrder(iter) == Reverse(visitAll(<<<<>>, {}>>, iter)[1])

Perms(S) == {q \in [1..Cardinality(S) -> S] : Range(q) = S}

\* ------------------------------------------------------------ networks
\* the bridges of the host after CreateBridge / DeleteBridge
BridgesAfterCreate(bs, name) == CreateBridge([links |-> bs, rules |-> <<>>], name).links
BridgesAfterDelete(bs, name) == DeleteBridge([links |-> bs, rules |-> <<>>], name).links

\* createNetworks: one record per declared network, one bridge for all
createNetworks ==
    /\ mnetworks' = [n \in DOMAIN mNets |->
                        [Mode |-> mNets[n],
                         BridgeName |-> IF mNets[n] = "bridge" THEN BridgeName ELSE ""]]
    /\ bridges' = IF \E n \in DOMAIN mNets : mNets[n] = "bridge"
                  THEN BridgesAfterCreate(bridges, BridgeName) ELSE bridges

\* cleanupNetworks: delete the bridge of every bridge record, drop the records
cleanupNetworks ==
    /\ bridges' = IF \E n \in DOMAIN mnetworks :
                       mnetworks[n].Mode = "bridge" /\ mnetworks[n].BridgeName # ""
                  THEN BridgesAfterDelete(bridges, BridgeName) ELSE bridges
    /\ mnetworks' = <<>>

\* --------------------------------------------------------- startContainer
ShouldSupervise_Always(policy) == TRUE

\* a supervisor goroutine is spawned for these policies
ShouldSupervise(policy) == policy \in {"always", "on-failure"}

NewSup(n) == [pc |-> "check", name |-> n, h |-> 0, err |-> FALSE]

MaxHandles == Cardinality(mDeclared) + MaxRestarts

\* the model creates at most MaxHandles handles and MaxSup live supervisors
CanStartContainer(n, sp) ==
    /\ Len(handles) < MaxHandles
    /\ ShouldSupervise(mRestart[n]) => BagCardinality(sp) < MaxSup

\* startContainer(name, spec) returning nil; sp: the goroutines besides the new one
startContainer(n, sp) ==
    LET mc == [mcontainers EXCEPT ![n] = Len(handles) + 1]
        sn == IF ShouldSupervise(mRestart[n]) THEN sp (+) SetToBag({NewSup(n)}) ELSE sp
    IN /\ mcontainers' = mc
       /\ sups' = sn
       /\ handles' = Heap(Append(handles, NewRunning(n)), mc, sn)

\* ---------------------------------------------------------- Manager.Start
LockFree_Always(held) == TRUE

\* m.mu.Lock() and m.mu.RLock() return only while no goroutine holds the
\* manager lock in write mode
LockFree(held) == ~held

MStartBegin ==
    /\ mpc = "idle" /\ LockFree(mlock) /\ calls < MaxCalls
    /\ mlock' = TRUE
    /\ calls' = calls + 1
    /\ createNetworks
    /\ started' = {} /\ visited' = {} /\ progress' = FALSE
    /\ startLog' = <<>>
    /\ mret' = "none"
    /\ mpc' = "scan"
    /\ UNCHANGED <<kvars, wvars, nvars, mcfg, mcontainers, mstop, handles, sups, stopLog>>

\* the range loop reaches a container that is already started or has an
\* unstarted dependency
MStartSkip(n) ==
    /\ mpc = "scan" /\ Cardinality(started) < Cardinality(mDeclared)
    /\ n \in mDeclared \ visited
    /\ n \in started \/ ~canStart(n)
    /\ visited' = visited \cup {n}
    /\ UNCHANGED <<kvars, wvars, nvars, mcfg, mcontainers, mnetworks, mlock, mpc, started, progress, mstop,
                   mret, calls, handles, sups, bridges, startLog, stopLog>>

\* the range loop reaches a container that can start, and starts it
MStartOne(n) ==
    /\ mpc = "scan" /\ Cardinality(started) < Cardinality(mDeclared)
    /\ n \in mDeclared \ visited
    /\ n \notin started /\ canStart(n)
    /\ CanStartContainer(n, sups)
    /\ startContainer(n, sups)
    /\ started' = started \cup {n}
    /\ progress' = TRUE
    /\ visited' = visited \cup {n}
    /\ startLog' = Append(startLog, n)
    /\ UNCHANGED <<kvars, wvars, nvars, mcfg, mnetworks, mlock, mpc, mstop, mret, calls, bridges, stopLog>>

AbortsOnError_Never(err) == FALSE

\* Start returns as soon as startContainer returned an error
AbortsOnError(err) == err

\* startContainer fails: Start returns the error at once
MStartOneFails(n) ==
    /\ mpc = "scan" /\ Cardinality(started) < Cardinality(mDeclared)
    /\ n \in mDeclared \ visited
    /\ n \notin started /\ canStart(n)
    /\ IF AbortsOnError(TRUE)
       THEN /\ mlock' = FALSE
            /\ mpc' = "idle"
            /\ mret' = "start:failed"
            /\ UNCHANGED visited
       ELSE /\ visited' = visited \cup {n}
            /\ UNCHANGED <<mlock, mpc, mret>>
    /\ UNCHANGED <<kvars, wvars, nvars, mcfg, mcontainers, mnetworks, started, progress, mstop, calls,
                   handles, sups, bridges, startLog, stopLog>>

PassFails_Never(p) == FALSE

\* a pass that started nothing ends Start with the circular-or-missing error
PassFails(p) == ~p

\* end of a pass over the map, or nothing left to start
MStartPassEnd ==
    /\ mpc = "scan"
    /\ visited = mDeclared \/ Cardinality(started) >= Cardinality(mDeclared)
    /\ IF Cardinality(started) >= Cardinality(mDeclared)
       THEN /\ mret' = "start:nil" /\ mpc' = "idle" /\ mlock' = FALSE
            /\ UNCHANGED <<visited, progress>>
       ELSE IF PassFails(progress)
       THEN /\ mret' = "start:circular" /\ mpc' = "idle" /\ mlock' = FALSE
            /\ UNCHANGED <<visited, progress>>
       ELSE /\ visited' = {} /\ progress' = FALSE
            /\ UNCHANGED <<mret, mpc, mlock>>
    /\ UNCHANGED <<kvars, wvars, nvars, mcfg, mcontainers, mnetworks, started, mstop, calls, handles, sups,
                   bridges, startLog, stopLog>>

\* ----------------------------------------------------------- Manager.Stop
MStopBegin ==
    /\ mpc = "idle" /\ LockFree(mlock) /\ calls < MaxCalls
    /\ mlock' = TRUE
    /\ calls' = calls + 1
    /\ \E iter \in Perms(mDeclared) : stopOrder' = getStopOrder(iter)
    /\ stopIdx' = 1
    /\ stopLog' = <<>>
    /\ mret' = "none"
    /\ mpc' = "stopping"
    /\ UNCHANGED <<kvars, wvars, nvars, mcfg, mcontainers, mnetworks, mscan, handles, sups, bridges, startLog>>

StopContinues_UntilError(err) == ~err

\* an error of k.Stop() is printed as a warning and the loop goes on
StopContinues(err) == TRUE

\* the next name of the order: Stop of its handle, if it has one
MStopNext ==
    /\ mpc = "stopping" /\ stopIdx <= Len(stopOrder)
    /\ LET n == stopOrder[stopIdx]
           h == IF n \in mDeclared THEN mcontainers[n] ELSE 0
       IN IF h = 0
          THEN /\ stopIdx' = stopIdx + 1
               /\ UNCHANGED <<handles, stopLog>>
          ELSE /\ \E o \in StopOutcomes(Handle(h)) :
                    /\ handles' = [handles EXCEPT ![h] = o[1]]
                    /\ stopIdx' = IF StopContinues(o[2]) THEN stopIdx + 1
                                  ELSE Len(stopOrder) + 1
               /\ stopLog' = Append(stopLog, n)
    /\ UNCHANGED <<kvars, wvars, nvars, mcfg, mcontainers, mnetworks, mlock, mpc, mscan, stopOrder, mret,
                   calls, sups, bridges, startLog>>

\* after the loop: cleanupNetworks, unlock, return nil
MStopEnd ==
    /\ mpc = "stopping" /\ stopIdx > Len(stopOrder)
    /\ cleanupNetworks
    /\ mlock' = FALSE
    /\ mpc' = "idle"
    /\ mret' = "stop:nil"
    /\ UNCHANGED <<kvars, wvars, nvars, mcfg, mcontainers, mscan, mstop, calls, handles, sups, startLog,
                   stopLog>>

\* -------------------------------------------------------- Manager.Restart
RestartAborts_Never(err) == FALSE

\* Restart returns when k.Stop() returned an error
RestartAborts(err) == err

\* the handle stored under a name, 0 when the map has no entry for it
Lookup(n) == IF n \in mDeclared THEN mcontainers[n] ELSE 0

RestartBegins ==
    /\ LockFree(mlock) /\ calls < MaxCalls
    /\ calls' = calls + 1

\* the map has no entry for the name
MRestartNotFound(n) ==
    /\ RestartBegins
    /\ Lookup(n) = 0
    /\ mret' = "restart:notfound"
    /\ UNCHANGED <<kvars, wvars, nvars, mcfg, mcontainers, mnetworks, mlock, mpc, mscan, mstop, handles,
                   sups, bridges, startLog, stopLog>>

\* k.Stop() returns an error
MRestartStopFails(n) ==
    /\ RestartBegins
    /\ Lookup(n) # 0
    /\ \E o \in StopOutcomes(Handle(Lookup(n))) :
          /\ RestartAborts(o[2])
          /\ handles' = [handles EXCEPT ![Lookup(n)] = o[1]]
    /\ mret' = "restart:stopfailed"
    /\ UNCHANGED <<kvars, wvars, nvars, mcfg, mcontainers, mnetworks, mlock, mpc, mscan, mstop,
                   sups, bridges, startLog, stopLog>>

\* k.Stop() went through and startContainer returns an error
MRestartStartFails(n) ==
    /\ RestartBegins
    /\ Lookup(n) # 0
    /\ \E o \in StopOutcomes(Handle(Lookup(n))) :
          /\ ~RestartAborts(o[2])
          /\ handles' = [handles EXCEPT ![Lookup(n)] = o[1]]
    /\ mret' = "restart:startfailed"
    /\ UNCHANGED <<kvars, wvars, nvars, mcfg, mcontainers, mnetworks, mlock, mpc, mscan, mstop,
                   sups, bridges, startLog, stopLog>>

\* k.Stop() went through and startContainer stores a new handle
MRestart(n) ==
    /\ RestartBegins
    /\ Lookup(n) # 0
    /\ CanStartContainer(n, sups)
    /\ \E o \in StopOutcomes(Handle(Lookup(n))) :
          /\ ~RestartAborts(o[2])
          /\ LET hs == [handles EXCEPT ![Lookup(n)] = o[1]]
                 mc == [mcontainers EXCEPT ![n] = Len(hs) + 1]
                 sn == IF ShouldSupervise(mRestart[n])
                       THEN sups (+) SetToBag({NewSup(n)}) ELSE sups
             IN /\ mcontainers' = mc
                /\ sups' = sn
                /\ handles' = Heap(Append(hs, NewRunning(n)), mc, sn)
    /\ mret' = "restart:nil"
    /\ UNCHANGED <<kvars, wvars, nvars, mcfg, mnetworks, mlock, mpc, mscan, mstop, bridges, startLog,
                   stopLog>>

Restart(n) ==
    MRestartNotFound(n) \/ MRestartStopFails(n) \/ MRestartStartFails(n) \/ MRestart(n)

\* ------------------------------------------------- Manager.handleRestart
Others(r) == sups (-) SetToBag({r})
Becomes(r, q) == Others(r) (+) SetToBag({q})

\* top of the loop: the handle is read under RLock, then k.Wait() is entered
SupCheck(r) ==
    /\ BagIn(r, sups) /\ r.pc = "check" /\ LockFree(mlock)
    /\ LET h == mcontainers[r.name]
       IN IF h = 0
          THEN /\ sups' = Others(r)
               /\ UNCHANGED handles
          ELSE \E b \in BOOLEAN :
                 LET how == CmdWaitEnter(Handle(h).w # "none", Handle(h).w = "reaped", b) IN
                 /\ sups' = Becomes(r, [r EXCEPT !.h = h,
                                                 !.pc = IF how = "block" THEN "wait" ELSE "record",
                                                 !.err = (how = "error")])
                 /\ handles' = [handles EXCEPT ![h].w = IF @ = "none" THEN "called" ELSE @]
    /\ UNCHANGED <<kvars, wvars, nvars, mcfg, mcontainers, mnetworks, mlock, mpc, mscan, mstop, mret, calls,
                   bridges, startLog, stopLog>>

\* cmd.Wait returns after the child's exit: with the status, or with an error
\* when another waiter collected the status
SupUnblock(r) ==
    /\ BagIn(r, sups) /\ r.pc = "wait"
    /\ Handle(r.h).proc = "exited"
    /\ sups' = Becomes(r, [r EXCEPT !.pc = "record", !.err = (Handle(r.h).w = "reaped")])
    /\ handles' = [handles EXCEPT ![r.h].w = "reaped"]
    /\ UNCHANGED <<kvars, wvars, nvars, mcfg, mcontainers, mnetworks, mlock, mpc, mscan, mstop, mret, calls,
                   bridges, startLog, stopLog>>

\* Kitten.Wait writes state and exit code under the handle mutex
SupRecord(r) ==
    /\ BagIn(r, sups) /\ r.pc = "record"
    /\ handles' = [handles EXCEPT ![r.h].state = StateStopped,
                                  ![r.h].exitCode = WaitExitCode(r.err, Handle(r.h).code)]
    /\ sups' = Becomes(r, [r EXCEPT !.pc = "decide"])
    /\ UNCHANGED <<kvars, wvars, nvars, mcfg, mcontainers, mnetworks, mlock, mpc, mscan, mstop, mret, calls,
                   bridges, startLog, stopLog>>

shouldRestart_OnFailureOnly(policy, exitCode, err) ==
    policy \in {"always", "on-failure"} /\ (exitCode # 0 \/ err)

\* the restart decision of handleRestart
shouldRestart(policy, exitCode, err) ==
    \/ policy = "always"
    \/ policy = "on-failure" /\ (exitCode # 0 \/ err)

\* Kitten.Wait returns k.exitCode and err; the supervisor decides
SupDecide(r) ==
    /\ BagIn(r, sups) /\ r.pc = "decide"
    /\ LET sn == IF shouldRestart(mRestart[r.name], Handle(r.h).exitCode, r.err)
                 THEN Becomes(r, [r EXCEPT !.pc = "restart"])
                 ELSE Others(r)
       IN /\ sups' = sn
          /\ handles' = Heap(handles, mcontainers, sn)
    /\ UNCHANGED <<kvars, wvars, nvars, mcfg, mcontainers, mnetworks, mlock, mpc, mscan, mstop, mret, calls,
                   bridges, startLog, stopLog>>

\* after the sleep: startContainer under the write lock, then the loop goes on
SupRestart(r) ==
    /\ BagIn(r, sups) /\ r.pc = "restart" /\ LockFree(mlock)
    /\ CanStartContainer(r.name, Becomes(r, NewSup(r.name)))
    /\ startContainer(r.name, Becomes(r, NewSup(r.name)))
    /\ UNCHANGED <<kvars, wvars, nvars, mcfg, mnetworks, mlock, mpc, mscan, mstop, mret, calls, bridges,
                   startLog, stopLog>>

\* startContainer fails in the supervisor: it logs and returns
SupRestartFails(r) ==
    /\ BagIn(r, sups) /\ r.pc = "restart" /\ LockFree(mlock)
    /\ sups' = Others(r)
    /\ handles' = Heap(handles, mcontainers, Others(r))
    /\ UNCHANGED <<kvars, wvars, nvars, mcfg, mcontainers, mnetworks, mlock, mpc, mscan, mstop, mret, calls,
                   bridges, startLog, stopLog>>

\* ----------------------------------------------------------- Manager.Wait
NoErr == 0

\* the snapshot is taken under the read lock; one goroutine per handle
MWaitBegin ==
    /\ wpc = "idle" /\ LockFree(mlock) /\ waits < MaxWaits
    /\ waits' = waits + 1
    /\ waiters' = [h \in {mcontainers[n] : n \in {d \in mDeclared : mcontainers[d] # 0}} |->
                      [pc |-> "enter", err |-> FALSE]]
    /\ results' = <<>>
    /\ wret' = <<>>
    /\ wpc' = "collect"
    /\ UNCHANGED <<kvars, nvars, mvars>>

WaiterAt(h, p) == h \in DOMAIN waiters /\ waiters[h].pc = p

\* kitten.Wait() of a goroutine enters cmd.Wait()
MWaitEnter(h) ==
    /\ WaiterAt(h, "enter")
    /\ \E b \in BOOLEAN :
         LET how == CmdWaitEnter(Handle(h).w # "none", Handle(h).w = "reaped", b) IN
         waiters' = [waiters EXCEPT ![h] = [pc |-> IF how = "block" THEN "wait" ELSE "record",
                                            err |-> (how = "error")]]
    /\ handles' = [handles EXCEPT ![h].w = IF @ = "none" THEN "called" ELSE @]
    /\ UNCHANGED <<kvars, nvars, mcfg, mcontainers, mnetworks, mlock, mpc, mscan, mstop, mret, calls,
                   sups, bridges, startLog, stopLog, wpc, results, wret, waits>>

\* cmd.Wait returns after the child's exit: with the status, or with an error
\* when another waiter collected it
MWaitUnblock(h) ==
    /\ WaiterAt(h, "wait")
    /\ Handle(h).proc = "exited"
    /\ waiters' = [waiters EXCEPT ![h] = [pc |-> "record", err |-> (Handle(h).w = "reaped")]]
    /\ handles' = [handles EXCEPT ![h].w = "reaped"]
    /\ UNCHANGED <<kvars, nvars, mcfg, mcontainers, mnetworks, mlock, mpc, mscan, mstop, mret, calls,
                   sups, bridges, startLog, stopLog, wpc, results, wret, waits>>

\* kitten.Wait() records and returns; the goroutine sends its error (named
\* after the handle, NoErr for nil) on the results channel
MWaitSend(h) ==
    /\ WaiterAt(h, "record")
    /\ handles' = [handles EXCEPT ![h].state = StateStopped,
                                  ![h].exitCode = WaitExitCode(waiters[h].err, Handle(h).code)]
    /\ results' = Append(results, IF waiters[h].err THEN h ELSE NoErr)
    /\ waiters' = [waiters EXCEPT ![h].pc = "done"]
    /\ UNCHANGED <<kvars, nvars, mcfg, mcontainers, mnetworks, mlock, mpc, mscan, mstop, mret, calls,
                   sups, bridges, startLog, stopLog, wpc, wret, waits>>

\* the first non-nil error of a sequence of received errors
firstErr(seq) ==
    IF \E i \in 1..Len(seq) : seq[i] # NoErr
    THEN seq[CHOOSE i \in 1..Len(seq) :
                 seq[i] # NoErr /\ \A j \in 1..(i - 1) : seq[j] = NoErr]
    ELSE NoErr

ResultsNeeded_One(n) == IF n > 0 THEN 1 ELSE 0

\* the collecting loop receives one result per handle of the snapshot
ResultsNeeded(n) == n

\* the collecting loop has received its results: Manager.Wait returns firstErr
MWaitReturn ==
    /\ wpc = "collect"
    /\ LET need == ResultsNeeded(Cardinality(DOMAIN waiters)) IN
         /\ Len(results) >= need
         /\ wret' = <<firstErr(SubSeq(results, 1, need))>>
    /\ wpc' = "idle"
    /\ UNCHANGED <<kvars, nvars, mvars, waiters, results, waits>>

WaitSteps ==
    \/ \E h \in 1..Len(handles) : MWaitEnter(h) \/ MWaitUnblock(h) \/ MWaitSend(h)
    \/ MWaitReturn

\* ------------------------------------------------- children of the manager
MExitCodes == {0, 1}

\* the user command of handle h finishes with exit code c
MChildExits(h, c) ==
    /\ h \in 1..Len(handles)
    /\ Handle(h).proc = "running"
    /\ handles' = Heap([handles EXCEPT ![h].proc = "exited", ![h].code = c],
                       mcontainers, sups)
    /\ UNCHANGED <<kvars, wvars, nvars, mcfg, mcontainers, mnetworks, mlock, mpc, mscan, mstop, mret, calls,
                   sups, bridges, startLog, stopLog>>


RECURSIVE ReachFrom(_, _)
ReachFrom(S, k) ==
    IF k = 0 THEN S
    ELSE ReachFrom(S \cup UNION {Range(mDeps[n]) : n \in S \cap mDeclared}, k - 1)
DependsOn(c, d) == d \in ReachFrom(Range(mDeps[c]), Cardinality(mDeclared))
Acyclic == \A n \in mDeclared : ~DependsOn(n, n)

\* C3: in an acyclic deployment, when Manager.Stop calls Stop on the handle of
\* d, it has already called Stop on the handle of every container that has a
\* handle and depends on d directly or transitively (stopLog is the log of the
\* Stop call in progress or just returned).
C3_StopOrderReverse ==
    (Acyclic /\ (mpc = "stopping" \/ mret = "stop:nil")) =>
        \A i \in 1..Len(stopLog) :
            \A c \in mDeclared :
                (DependsOn(c, stopLog[i]) /\ mcontainers[c] # 0)
                    => \E j \in 1..(i - 1) : stopLog[j] = c

C3_Witness ==
    /\ mret = "stop:nil"
    /\ mDeps["a"] = <<"b">> /\ mDeps["b"] = <<"c">>
    /\ stopLog = <<"a", "b", "c">>

\* the deployment of two containers that depend on each other
TwoCycle ==
    /\ mDeclared = {"a", "b"}
    /\ mDeps["a"] = <<"b">> /\ mDeps["b"] = <<"a">>

\* C11: for the deployment A depends_on B, B depends_on A, Manager.Start never
\* returns nil or a startContainer error (it returns the circular-or-missing
\* dependency error) and no container is ever started.
C11_CycleRefused ==
    TwoCycle =>
        /\ mret \notin {"start:nil", "start:failed"}
        /\ (mpc = "idle" /\ calls > 0 /\ mret # "stop:nil" => mret = "start:circular")
        /\ startLog = <<>> /\ handles = <<>>
        /\ \A n \in mDeclared : mcontainers[n] = 0

C11_Witness == TwoCycle /\ mret = "start:circular" /\ visited = mDeclared

\* n can never be started: it lies on a cycle, or it depends, directly or
\* through other containers, on a name that is not declared
Unstartable(n) ==
    \/ DependsOn(n, n)
    \/ \E d \in ReachFrom(Range(mDeps[n]), Cardinality(mDeclared)) : d \notin mDeclared

C4_NoStartAfterStop ==
    [][mret = "stop:nil" => Len(handles') = Len(handles)]_vars

\* C5: when Manager.Stop has returned, the container map holds no handle, the
\* network map holds no record and the bridge of the deployment is deleted.
C5_StopEmptiesManager ==
    mret = "stop:nil" =>
        /\ \A n \in mDeclared : mcontainers[n] = 0
        /\ mnetworks = <<>>
        /\ bridges = {}

\* C8: a supervisor of an on-failure container goes on to restart it only
\* when the child it waited for exited with a non-zero code.
C8_OnFailureOnlyAfterFailure ==
    \A r \in BagToSet(sups) :
        (r.pc = "restart" /\ mRestart[r.name] = "on-failure") => Handle(r.h).code # 0

\* Kitten.PID
PID(k) == k.pid

\* Manager.Status: one entry for every name in the container map
Status ==
    [n \in {d \in DOMAIN mcontainers : mcontainers[d] # 0} |->
        IF PID(handles[mcontainers[n]]) > 0 THEN "running" ELSE "stopped"]

\* C20: whenever Status can take its read lock, a container whose handle has
\* reached Stopped is reported as "stopped", not as "running".
C20_StoppedReportedStopped ==
    ~mlock =>
        \A n \in DOMAIN Status :
            Handle(mcontainers[n]).state = StateStopped => Status[n] = "stopped"

\* C22: the step on which startContainer fails ends Manager.Start with that
\* error and touches no handle; when Start has returned it, the containers
\* started earlier in the call are in the map with running handles and the
\* other containers were not started by the call.
C22_StartAbortsOnFailure ==
    /\ [](mret = "start:failed" =>
             /\ mpc = "idle" /\ ~mlock
             /\ started = Range(startLog)
             /\ \A n \in started :
                    /\ mcontainers[n] # 0
                    /\ Handle(mcontainers[n]).state = StateRunning
                    /\ Handle(mcontainers[n]).proc = "running")
    /\ [][(\E n \in mDeclared : MStartOneFails(n)) =>
              /\ mret' = "start:failed"
              /\ UNCHANGED <<mcontainers, handles, sups, startLog, started>>]_vars

\* Start returned a failure after it had started one container and before it
\* reached another one
C22_Witness ==
    /\ mret = "start:failed"
    /\ Len(startLog) = 1
    /\ \E n \in mDeclared : n \notin started /\ mcontainers[n] = 0

WithHandle == {n \in mDeclared : mcontainers[n] # 0}

OthersUnchanged(n) ==
    \A d \in mDeclared \ {n} :
        /\ mcontainers'[d] = mcontainers[d]
        /\ mcontainers[d] # 0 => handles'[mcontainers[d]] = handles[mcontainers[d]]

\* C24: a call Restart(n) changes no other container; for a name without a
\* handle it returns the not-found error and changes nothing; when the handle
\* of n cannot be stopped it returns an error and creates no handle; when it
\* returns nil the old handle is Stopped and the map holds a new, Running
\* handle for n.
C24_RestartOnlyNamed ==
    [][\A n \in SupDeclared \cup {Undeclared} :
          Restart(n) =>
              /\ OthersUnchanged(n)
              /\ Lookup(n) = 0 =>
                     /\ mret' = "restart:notfound"
                     /\ UNCHANGED <<mcontainers, handles, sups, bridges>>
              /\ (Lookup(n) # 0 /\ Handle(Lookup(n)).state # StateRunning) =>
                     /\ mret' = "restart:stopfailed"
                     /\ UNCHANGED <<mcontainers, handles, sups>>
              /\ mret' \in {"restart:stopfailed", "restart:startfailed"} =>
                     /\ Len(handles') = Len(handles)
                     /\ UNCHANGED <<mcontainers, sups>>
              /\ mret' = "restart:nil" =>
                     /\ handles'[Lookup(n)].state = StateStopped
                     /\ mcontainers'[n] = Len(handles) + 1
                     /\ handles'[mcontainers'[n]].state = StateRunning]_vars

\* Restart has returned nil: the name has a second handle, running, and the
\* other container still has the handle Start gave it
C24_Witness ==
    /\ mret = "restart:nil"
    /\ \E n \in mDeclared, d \in mDeclared :
          /\ n # d
          /\ mcontainers[n] = Len(handles) /\ Handle(mcontainers[n]).state = StateRunning
          /\ mcontainers[d] # 0 /\ mcontainers[d] < Len(handles)
          /\ Handle(mcontainers[d]).state = StateRunning

\* C25: when Manager.Wait has returned, every goroutine of its snapshot has
\* returned from Wait and sent its result; the value returned is nil when all
\* results are nil and otherwise the first non-nil one in the order received;
\* no step of Manager.Wait after the snapshot holds or takes the manager lock,
\* so a Stop can begin while Wait collects.
C25_WaitCollectsAll ==
    /\ [](wret # <<>> =>
             /\ \A h \in DOMAIN waiters : waiters[h].pc = "done"
             /\ Len(results) = Cardinality(DOMAIN waiters)
             /\ (wret[1] = NoErr) <=> (\A i \in 1..Len(results) : results[i] = NoErr)
             /\ wret[1] # NoErr =>
                    \E i \in 1..Len(results) :
                        /\ results[i] = wret[1]
                        /\ \A j \in 1..(i - 1) : results[j] = NoErr)
    /\ []((wpc = "collect" /\ mpc = "idle" /\ ~mlock /\ calls < MaxCalls) =>
             ENABLED MStopBegin)
    /\ [][WaitSteps => UNCHANGED mlock]_vars

\* Manager.Wait has returned the error of the second result it received, the
\* first one being nil
C25_Witness ==
    /\ wret # <<>> /\ Len(results) = 2
    /\ results[1] = NoErr /\ results[2] # NoErr
    /\ wret[1] = results[2]

\* what other goroutines do under the manager lock: the beginning of Stop,
\* Restart, the snapshot of Wait, a supervisor's read of the map and its
\* re-insertion of a handle
LockedSteps ==
    \/ MStopBegin
    \/ \E n \in SupDeclared \cup {Undeclared} : Restart(n)
    \/ MWaitBegin
    \/ \E r \in BagToSet(sups) : SupCheck(r) \/ SupRestart(r) \/ SupRestartFails(r)

\* C26: from the beginning of Manager.Start to its return the manager lock is
\* held in write mode, no step under the lock can be taken by another
\* goroutine, and the container map changes only by Start's own steps.
C26_StartHoldsLock ==
    /\ [](mpc = "scan" => (mlock /\ ~ENABLED LockedSteps))
    /\ [][mpc = "scan" =>
              \/ \E n \in mDeclared : MStartOne(n)
              \/ mcontainers' = mcontainers]_vars

\* a supervisor is about to re-insert a handle while a later call of Start is
\* between its beginning and its return
C26_Witness ==
    /\ mpc = "scan" /\ calls = 2
    /\ \E r \in BagToSet(sups) : r.pc = "restart"

\* the live handleRestart goroutines of a container name
Supervisors(n) == [r \in {q \in BagToSet(sups) : q.name = n} |-> CopiesIn(r, sups)]

\* C37: no container name has more than one live restart supervisor.
C37_OneSupervisorPerName ==
    \A n \in mDeclared : BagCardinality(Supervisors(n)) <= 1

\* the children of a name that have not exited
LiveChildren(n) ==
    {h \in 1..Len(handles) : Handle(h).name = n /\ Handle(h).proc = "running"}

\* C38: every child that has not exited belongs to the handle stored under
\* its name, so a name has at most one live child.
C38_LiveChildIsStored ==
    \A n \in mDeclared : LiveChildren(n) \subseteq {mcontainers[n]}

\* C10: a container whose restart policy is "no" or empty never has a
\* supervisor, and the handle stored under its name changes only inside
\* Manager.Start.
C10_NoPolicyNeverRestarted ==
    [][\A n \in mDeclared :
          mRestart[n] \in {"", "no"} =>
              /\ \A r \in BagToSet(sups') : r.name # n
              /\ (mcontainers'[n] # mcontainers[n] => mpc = "scan")]_vars

C10_Witness ==
    /\ mRestart["a"] = "no" /\ mRestart["b"] = ""
    /\ mcontainers["a"] # 0 /\ mcontainers["b"] # 0
    /\ Handle(mcontainers["a"]).proc = "exited" /\ Handle(mcontainers["a"]).code = 1
    /\ Handle(mcontainers["b"]).proc = "exited" /\ Handle(mcontainers["b"]).code = 0
    /\ mpc = "idle" /\ mret = "start:nil"


\* the handle budget of the model is used up: no further startContainer
Exhausted == Len(handles) >= MaxHandles \/ BagCardinality(sups) >= MaxSup

\* the containers of the liveness deployment whose policy is always
LiveAlways == {"a"}

DepCands == Names \cup {Undeclared}
DepLists == UNION {{q \in [1..n -> DepCands] : \A i, j \in 1..n : i # j => q[i] # q[j]}
                   : n \in 0..MaxDeps}

ManagerFresh ==
    /\ IdleW /\ IdleN
    /\ mcontainers = [n \in mDeclared |-> 0]
    /\ mnetworks = <<>>
    /\ mlock = FALSE
    /\ mpc = "idle"
    /\ started = {}
    /\ visited = {}
    /\ progress = FALSE
    /\ stopOrder = <<>>
    /\ stopIdx = 0
    /\ mret = "none"
    /\ calls = 0
    /\ handles = <<>>
    /\ sups = EmptyBag
    /\ bridges = {}
    /\ startLog = <<>>
    /\ stopLog = <<>>

\* a handle nobody calls
IdleHandle ==
    /\ cfgNet = FALSE /\ cfgPorts = <<>> /\ cfgIP = NoIP
    /\ termBehaviour = "exits" /\ rootfs = TRUE
    /\ kstate = StateCreated /\ kcmd = FALSE /\ kpid = 0 /\ kexitCode = 0
    /\ kvethHost = "" /\ kcontainerIP = NoIP /\ kstopTime = FALSE /\ kmutex = NoTask
    /\ proc = "none" /\ procCode = 0 /\ procReaped = FALSE /\ cmdWaitCalled = FALSE
    /\ sigTerm = FALSE /\ sigKill = FALSE /\ launches = 0 /\ vethMoved = FALSE
    /\ reaper = "none" /\ stopReturned = "no"
    /\ pc = [t \in Tasks |-> "idle"] /\ werr = [t \in Tasks |-> FALSE]
    /\ stateSeq = <<StateCreated>> /\ observed = <<>>

IdleK == IdleHandle /\ links = {} /\ iptables = <<>>

\* rules that other programs, or an earlier run, left on the host
ForeignRules == {MasqSubnetRule, FwdOutRule(BridgeName), DNATRule(PortA, 2)}

\* a child at the entry of RunChild, with any configuration
InitChild ==
    /\ IdleK /\ IdleM /\ IdleNet
    /\ childCfg \in ChildCfgs
    /\ childRun = ChildAtEntry
    /\ fcall = NoCall /\ waitReturned = WaitsUnrecorded

SpecChild == InitChild /\ [][RunChild]_vars

\* no handle, no manager call: only the helper functions are called
InitPure == IdleK /\ IdleM /\ IdleN

SpecAlloc == InitPure /\ [][DoAllocateIP]_vars

SpecVeth == InitPure /\ [][DoVethNames]_vars

SpecVethOfTwo == InitPure /\ [][DoVethNamesOfTwo]_vars

\* a host with any of the two link names taken and up to MaxHostRules rules
InitBridge ==
    /\ IdleHandle /\ IdleM /\ IdleN
    /\ links \in SUBSET {BridgeName, VethName}
    /\ iptables \in UNION {[1..n -> ForeignRules] : n \in 0..MaxHostRules}

NextBridge == DoCreateBridge \/ DoDeleteBridge

SpecBridge == InitBridge /\ [][NextBridge]_vars

\* every dependency graph over the declared names (a deployment of two or of
\* three containers), no restart policy
InitOrder ==
    /\ IdleK
    /\ mDeclared \in {SupDeclared, Names}
    /\ mDeps \in [mDeclared -> DepLists]
    /\ mRestart = [n \in mDeclared |-> "no"]
    /\ mNets = [n \in {"net"} |-> "bridge"]
    /\ ManagerFresh

MainSteps ==
    \/ \E n \in Names : MStartSkip(n) \/ MStartOne(n) \/ MStartOneFails(n)
    \/ MStartPassEnd
    \/ MStopNext \/ MStopEnd

NextOrder == MStartBegin \/ MStopBegin \/ MainSteps

SpecOrder == InitOrder /\ [][NextOrder]_vars

\* Manager.Start calls only; the main task inside a call keeps running, the
\* caller need not call
StartSteps ==
    \/ \E n \in Names : MStartSkip(n) \/ MStartOne(n) \/ MStartOneFails(n)
    \/ MStartPassEnd

NextStart == MStartBegin \/ StartSteps

SpecStart == InitOrder /\ [][NextStart]_vars /\ WF_vars(StartSteps)

\* two containers, "a" depending on "b"; "a" has any restart policy, "b" none
InitSup ==
    /\ IdleK
    /\ mDeclared = SupDeclared
    /\ mDeps = [n \in SupDeclared |-> IF n = "a" THEN <<"b">> ELSE <<>>]
    /\ mRestart \in {f \in [SupDeclared -> Policies] : f["b"] = ""}
    /\ mNets = [n \in {"net", "hostnet"} |-> IF n = "net" THEN "bridge" ELSE "host"]
    /\ ManagerFresh

SupSteps ==
    \E r \in BagToSet(sups) : SupCheck(r) \/ SupUnblock(r) \/ SupRecord(r)
                                \/ SupDecide(r) \/ SupRestart(r)

NextSup ==
    \/ MStartBegin \/ MStopBegin \/ MainSteps
    \/ SupSteps
    \/ \E r \in BagToSet(sups) : SupRestartFails(r)
    \/ \E h \in 1..Len(handles) : \E c \in MExitCodes : MChildExits(h, c)

SpecSup == InitSup /\ [][NextSup]_vars

\* two containers without restart policy; Start, Stop and Wait are called,
\* the user commands may finish
InitWait == InitSup /\ mRestart["a"] = "no"

NextWait ==
    \/ MStartBegin \/ MStopBegin \/ MainSteps
    \/ \E h \in 1..Len(handles) : \E c \in MExitCodes : MChildExits(h, c)
    \/ MWaitBegin
    \/ WaitSteps

SpecWait == InitWait /\ [][NextWait]_vars

\* the supervised deployment with calls of Restart besides Start and Stop
NextRestart ==
    \/ NextSup
    \/ \E n \in SupDeclared \cup {Undeclared} : Restart(n)

SpecRestart == InitSup /\ [][NextRestart]_vars

\* the supervised deployment when every startContainer of a supervisor succeeds
\* and user commands that finish exit with code 0; goroutines inside a call or
\* a supervisor loop are scheduled fairly, children may run forever and the
\* caller need not call
NextLive ==
    \/ MStartBegin \/ MStopBegin \/ MainSteps
    \/ SupSteps
    \/ \E h \in 1..Len(handles) : MChildExits(h, 0)

InitLive == InitSup /\ mRestart["a"] = "always"

SpecLive == InitLive /\ [][NextLive]_vars /\ WF_vars(MainSteps) /\ WF_vars(SupSteps)

====
